---- MODULE Spec2Model ----
(***************************************************************************)
(* Multi-timeframe candle aggregation and distribution engine              *)
(* (backend/internal/service/price_service.go, models/timeframe.go).       *)
(*                                                                         *)
(* Units.  The wall clock `now` is in seconds; candle timestamps are in    *)
(* milliseconds as in the code.  Prices and volumes are held in hundredths *)
(* (the code rounds every stored value with math.Round(x*100)/100); a raw  *)
(* value before rounding is held in thousandths ("mills") and goes through *)
(* Round.  The model epoch 0 is a local midnight and the location has a    *)
(* fixed offset over the modelled window.                                  *)
(***************************************************************************)
EXTENDS Integers, Sequences, FiniteSets, TLC

\* ------------------------------------------------------------------ bounds

\* Capacity of every series.  The service is built with 100; the model
\* scales it down so that eviction happens within the explored runs.
maxCandles == 3

\* Last second of wall-clock time explored.
MaxClock == 700

\* Candles started per run of the process.
MaxStarts == 3

\* Price ticks explored per current candle.
MaxTicks == 1

\* Connections that may ever be opened.
MaxConns == 2

\* Concurrent SaveTimeFrame goroutines explored per timeframe.
MaxSavers == 2

\* Restarts of the process explored.
MaxRuns == 1

\* WebSocket objects the browser's price service creates.
MaxSockets == 3

\* --------------------------------------------------------------- constants

DefaultPrice == 20000
MinPrice == 1
MsPerMinute == 60000

TimeFrame1Min == "1m"
TimeFrame5Min == "5m"
TimeFrame15Min == "15m"
TimeFrame1Hour == "1h"
TimeFrame4Hour == "4h"
TimeFrame1Day == "1d"

\* The five derived timeframes in the order both loops range over them.
HigherTimeframes ==
    <<TimeFrame5Min, TimeFrame15Min, TimeFrame1Hour, TimeFrame4Hour, TimeFrame1Day>>

TimeFrames ==
    {TimeFrame1Min, TimeFrame5Min, TimeFrame15Min, TimeFrame1Hour, TimeFrame4Hour,
     TimeFrame1Day}

DerivedTimeFrames == TimeFrames \ {TimeFrame1Min}

\* ----------------------------------------------------------------- helpers

Max(a, b) == IF a >= b THEN a ELSE b

Min(a, b) == IF a <= b THEN a ELSE b

\* math.Round(x*100)/100 on a value given in mills: half away from zero.
Round(mills) ==
    IF mills >= 0 THEN (mills + 5) \div 10 ELSE 0 - ((5 - mills) \div 10)

\* TimeFrame.GetDuration, in seconds.
GetDuration(tf) ==
    CASE tf = TimeFrame1Min -> 60
      [] tf = TimeFrame5Min -> 300
      [] tf = TimeFrame15Min -> 900
      [] tf = TimeFrame1Hour -> 3600
      [] tf = TimeFrame4Hour -> 14400
      [] tf = TimeFrame1Day -> 86400
      [] OTHER -> 60

\* time.Date(y, m, d, hour, minute, 0, 0, loc).Unix() for day number `day`.
DateUnix(day, hour, minute) == day * 86400 + hour * 3600 + minute * 60

\* TimeFrame.NormalizeTimestamp: milliseconds -> seconds -> calendar fields ->
\* the fields truncated per timeframe -> milliseconds.
NormalizeTimestamp(tf, timestamp) ==
    LET t == timestamp \div 1000
        day == t \div 86400
        hour == (t % 86400) \div 3600
        minute == (t % 3600) \div 60
        u == CASE tf = TimeFrame1Min -> DateUnix(day, hour, minute)
               [] tf = TimeFrame5Min -> DateUnix(day, hour, minute - (minute % 5))
               [] tf = TimeFrame15Min -> DateUnix(day, hour, minute - (minute % 15))
               [] tf = TimeFrame1Hour -> DateUnix(day, hour, 0)
               [] tf = TimeFrame4Hour -> DateUnix(day, hour - (hour % 4), 0)
               [] tf = TimeFrame1Day -> DateUnix(day, 0, 0)
               [] OTHER -> t
    IN  u * 1000

\* The process's time.Local as NormalizeTimestamp sees it through t.Location():
\* the offset from UTC is `before` up to the instant `at` (seconds) and `after`
\* from it on; before = after is a location without transitions. `pick` is the
\* zone time.Date() answers in when the fields it is given name two instants
\* or none: it returns a time correct in one of the two zones and does not
\* guarantee which.
NoTransition == [before |-> 0, after |-> 0, at |-> 0]

\* Clocks go back one hour at 01:00 UTC of day 0: 03:00 at +02:00 becomes
\* 02:00 at +01:00.
FallBack == [before |-> 7200, after |-> 3600, at |-> 3600]

Locations ==
    {[before |-> z.before, after |-> z.after, at |-> z.at, pick |-> p] :
        z \in {NoTransition, FallBack}, p \in {"before", "after"}}

\* The offset in force at the instant u (time.Unix(u, 0) in loc).
ZoneOffset(loc, u) == IF u < loc.at THEN loc.before ELSE loc.after

\* time.Date(...).Unix() in loc for the wall-clock reading `civil` (the fields
\* counted as seconds): the instant that reads `civil` in loc.
DateIn(loc, civil) ==
    LET early == civil - loc.before
        late == civil - loc.after
        earlyOk == early < loc.at
        lateOk == late >= loc.at
    IN  IF earlyOk /\ ~lateOk THEN early
        ELSE IF lateOk /\ ~earlyOk THEN late
        ELSE IF loc.pick = "before" THEN early ELSE late

\* TimeFrame.NormalizeTimestamp in the location loc: the fields of the local
\* reading of the instant, truncated per timeframe, read back as an instant.
NormalizeIn(loc, tf, timestamp) ==
    LET t == timestamp \div 1000
        civil == t + ZoneOffset(loc, t)
        day == civil \div 86400
        hour == (civil % 86400) \div 3600
        minute == (civil % 3600) \div 60
        fields == CASE tf = TimeFrame1Min -> DateUnix(day, hour, minute)
                    [] tf = TimeFrame5Min -> DateUnix(day, hour, minute - (minute % 5))
                    [] tf = TimeFrame15Min -> DateUnix(day, hour, minute - (minute % 15))
                    [] tf = TimeFrame1Hour -> DateUnix(day, hour, 0)
                    [] tf = TimeFrame4Hour -> DateUnix(day, hour - (hour % 4), 0)
                    [] tf = TimeFrame1Day -> DateUnix(day, 0, 0)
                    [] OTHER -> civil
    IN  DateIn(loc, fields) * 1000

\* models.CandleData
CandleData(ts, o, h, l, c, complete, vol) ==
    [Timestamp |-> ts, Values |-> <<o, h, l, c>>, IsComplete |-> complete, Volume |-> vol]

\* models.UpdateMessage
UpdateMessage(type, candle, tf) == [Type |-> type, Candle |-> candle, TimeFrame |-> tf]

Last(s) == s[Len(s)]

\* A trim that would drop the newest candle instead of the oldest.
Trim_DropNewest(s) == IF Len(s) > maxCandles THEN SubSeq(s, 1, maxCandles) ELSE s

\* s[1:] after an append that took the series over maxCandles.
Trim(s) == IF Len(s) > maxCandles THEN Tail(s) ELSE s

\* s[len(s)-maxCandles:] when the series is longer than maxCandles.
KeepRecent(s) ==
    IF Len(s) > maxCandles THEN SubSeq(s, Len(s) - maxCandles + 1, Len(s)) ELSE s

\* Index of the first candle of s with the given timestamp, 0 when there is none
\* (candleIndex = -1 in the code).
IndexOf(s, ts) ==
    IF \E i \in 1..Len(s) : s[i].Timestamp = ts
    THEN CHOOSE i \in 1..Len(s) :
            /\ s[i].Timestamp = ts
            /\ \A j \in 1..(i - 1) : s[j].Timestamp # ts
    ELSE 0

\* Permutations of a finite set, as sequences.
RECURSIVE Perms(_)
Perms(S) ==
    IF S = {} THEN {<<>>}
    ELSE UNION {{<<x>> \o p : p \in Perms(S \ {x})} : x \in S}

\* --------------------------------------------------------- price generator

\* Initialize's draws for one candle: change = (rand-0.5)*volatility and the
\* open, high, low perturbations in mills, the volume in hundredths.
InitDraws ==
    {[change |-> 0 - 4000, od |-> 304, hi |-> 1206, lo |-> 2500, fix |-> 100, vol |-> 52340],
     [change |-> 2718, od |-> 0 - 455, hi |-> 0, lo |-> 0, fix |-> 0, vol |-> 0]}

\* StartNewCandle's draws: change = (rand-0.5)*1.0 in mills, volume in hundredths.
OpenChanges == {0 - 500, 204}

StartVolumes == {35}

\* UpdateCurrentCandle's draws: change = (rand-0.5)*volatility in mills, and
\* math.Round(rand*5) hundredths of volume.
TickDraws == {<<0 - 4999, 0>>, <<3141, 5>>}

\* Wall-clock instant the process is started at: 00:06:30.
StartTimes == {390}

\* Wall-clock advances explored, in seconds.
ClockSteps == {300}

\* ------------------------------------------------------------------- state

VARIABLES
    now,            \* time.Now(), seconds
    timeFrameData,  \* ps.timeFrameData: the series of every timeframe
    hasSeries,      \* the keys present in ps.timeFrameData
    currentCandle,  \* ps.currentCandle: <<>> (nil) or <<candle>>
    clients,        \* ps.clients: the registered connections
    conns,          \* every connection: its transport state
    driver,         \* the thread calling the service (main, then the ticker loop)
    savers,         \* the SaveTimeFrame goroutines in flight, per timeframe
    files,          \* the data directory: target and staging file per timeframe
    events,         \* history: messages handed to broadcastToClients by the running call
    bcast,          \* history: the last broadcastToClients call
    hist,           \* history: appends and folds per series since seeding, last file call
    reply,          \* the response of the history request being served, <<>> when none
    reader,         \* a handler goroutine calling GetCurrentCandle or GetHistoryForTimeFrame
    norm,           \* a call of TimeFrame.NormalizeTimestamp: its inputs, then its results
    frontend        \* the browser's price service: its sockets and its reconnect timers

vars ==
    <<now, timeFrameData, hasSeries, currentCandle, clients, conns, driver, savers,
      files, events, bcast, hist, reply,
      reader, norm, frontend>>

Conns == 1..MaxConns

NoCandle == CandleData(0, 0, 0, 0, 0, FALSE, 0)

NoMessage == UpdateMessage("none", NoCandle, TimeFrame1Min)

EmptySeries == [tf \in TimeFrames |-> <<>>]

\* A file of the data directory: absent, or bytes that parse (ok) to `data` or
\* do not parse (a truncated or torn file).
NoFile == [exists |-> FALSE, ok |-> FALSE, data |-> <<>>]

NoBroadcast ==
    [msg |-> NoMessage, targets |-> {}, writable |-> {}, got |-> {}, failed |-> {},
     done |-> TRUE]

NoHist ==
    [appended |-> [tf \in TimeFrames |-> <<>>],
     count |-> [tf \in TimeFrames |-> 0],
     folded |-> [tf \in TimeFrames |-> <<>>],
     op |-> [name |-> "none", tf |-> TimeFrame1Min, err |-> "none", seq |-> 0,
             prev |-> "none"]]

\* The handler goroutine outside any call of the service. seen is the pointer
\* its nil check loaded, got what the call returned, backing the array the
\* returned slice points into ("own" or the one of the "store"), during whether
\* the driver was between two writes of the current candle when it was copied,
\* conn the connection it serves (0 for none).
NoReader ==
    [pc |-> "idle", op |-> "none", tf |-> "none", seen |-> <<>>, got |-> <<>>,
     backing |-> "own", during |-> FALSE, conn |-> 0]

\* The sockets the browser can create.
Sockets == 1..MaxSockets

\* The frontend module as loaded (priceService.js:5-6): ws and reconnectTimeout
\* are null (0). state is the readyState of every WebSocket object ("none"
\* before it is created), timers the setTimeout callbacks still pending, named
\* after the socket whose close event set them, created the number of sockets
\* made so far; asked records the last call the page made: "disconnect" or
\* "cancel" as disconnectWebSocket found the socket open or not, "replace" or
\* "connect" as connectWebSocket found it open or not.
NoFrontend ==
    [ws |-> 0, reconnectTimeout |-> 0, state |-> [k \in Sockets |-> "none"],
     timers |-> {}, created |-> 0, asked |-> "none"]

\* No call of NormalizeTimestamp under observation.
NoCall ==
    [pc |-> "none", loc |-> [before |-> 0, after |-> 0, at |-> 0, pick |-> "before"],
     tf |-> TimeFrame1Min, x |-> 0, y |-> 0, nx |-> 0, ny |-> 0, nnx |-> 0]

\* The service as NewPriceService returns it, before main seeds or loads it.
InitStore ==
    /\ now \in StartTimes
    /\ timeFrameData = EmptySeries
    /\ hasSeries = {}
    /\ currentCandle = <<>>
    /\ clients = {}
    /\ conns = [c \in Conns |-> "unused"]
    /\ driver = [pc |-> "boot", i |-> 0, final |-> NoCandle, prevFin |-> FALSE,
                 lock |-> FALSE, ticks |-> 0, started |-> 0, runs |-> 0]
    /\ savers = [tf \in TimeFrames |-> <<>>]
    /\ files = [tf \in TimeFrames |-> [target |-> NoFile, tmp |-> NoFile]]
    /\ events = <<>>
    /\ bcast = NoBroadcast
    /\ hist = NoHist
    /\ reply = <<>>
    /\ reader = NoReader
    /\ frontend = NoFrontend

Init ==
    /\ InitStore
    /\ norm = NoCall

\* ------------------------------------------------------------- aggregation

\* A variant of SeedCandle that starts the derived candle without volume.
SeedCandle_NoVolume(ts, c, complete) ==
    [Timestamp |-> ts, Values |-> c.Values, IsComplete |-> complete, Volume |-> 0]

\* A derived candle seeded from a base candle (price_service.go:163-168, 424-429).
SeedCandle(ts, c, complete) ==
    [Timestamp |-> ts, Values |-> c.Values, IsComplete |-> complete, Volume |-> c.Volume]

\* A fold that would take the newest candle's volume instead of adding it.
FoldCandle_VolumeReplaced(e, c) ==
    [e EXCEPT !.Values = <<e.Values[1],
                           IF c.Values[2] > e.Values[2] THEN c.Values[2] ELSE e.Values[2],
                           IF c.Values[3] < e.Values[3] THEN c.Values[3] ELSE e.Values[3],
                           c.Values[4]>>,
              !.Volume = c.Volume]

\* A fold that would keep the entry's close instead of taking the newest one.
FoldCandle_KeepClose(e, c) ==
    [e EXCEPT !.Values = <<e.Values[1],
                           IF c.Values[2] > e.Values[2] THEN c.Values[2] ELSE e.Values[2],
                           IF c.Values[3] < e.Values[3] THEN c.Values[3] ELSE e.Values[3],
                           e.Values[4]>>,
              !.Volume = e.Volume + c.Volume]

\* A base candle folded into an existing derived candle: the open is kept, high
\* and low widen, the close is overwritten, the volume adds up
\* (price_service.go:171-188, 458-473).
FoldCandle(e, c) ==
    [e EXCEPT !.Values = <<e.Values[1],
                           IF c.Values[2] > e.Values[2] THEN c.Values[2] ELSE e.Values[2],
                           IF c.Values[3] < e.Values[3] THEN c.Values[3] ELSE e.Values[3],
                           c.Values[4]>>,
              !.Volume = e.Volume + c.Volume]

\* An update of an existing entry that would keep the entry's close.
UpdateExisting_KeepClose(e, c) == FoldCandle_KeepClose(e, c)

\* updateHigherTimeframes' update of the entry found for the bucket
\* (price_service.go:458-473): the same fold as the grouping of
\* initializeHigherTimeframes, written out a second time there.
UpdateExisting(e, c) == FoldCandle(e, c)

\* A rollover that would leave the previous candle as it is.
ForceFinalize_Skipped(s) == s

\* The series with its last candle marked complete: the rollover's finalization
\* of the previous candle (price_service.go:406-409).
ForceFinalize(s) == [s EXCEPT ![Len(s)] = [@ EXCEPT !.IsComplete = TRUE]]

\* A variant of Widen that also moves the open to the new close.
Widen_MovesOpen(values, close) ==
    <<close, Max(values[2], close), Min(values[3], close), close>>

\* A tick that would move the close without tracking high and low.
Widen_CloseOnly(values, close) == <<values[1], values[2], values[3], close>>

\* The current candle's values after a tick closing at `close`
\* (price_service.go:301-309).
Widen(values, close) ==
    <<values[1],
      IF close > values[2] THEN close ELSE values[2],
      IF close < values[3] THEN close ELSE values[3],
      close>>

\* groupedCandles after the first n minute candles went through the grouping loop.
RECURSIVE GroupCandles(_, _, _)
GroupCandles(tf, cs, n) ==
    IF n = 0 THEN <<>>
    ELSE LET g == GroupCandles(tf, cs, n - 1)
             c == cs[n]
             ts == NormalizeTimestamp(tf, c.Timestamp)
             i == IndexOf(g, ts)
         IN  IF i = 0 THEN Append(g, SeedCandle(ts, c, TRUE))
             ELSE [g EXCEPT ![i] = FoldCandle(g[i], c)]

\* The slices `for _, candle := range groupedCandles` can build: Go leaves the
\* iteration order of a map unspecified, and nothing sorts the slice afterwards.
MapOrders(g) ==
    {[k \in 1..Len(g) |-> g[p[k]]] : p \in Perms(1..Len(g))}

\* ------------------------------------------------------------- persistence

\* json.Marshal of one candle: "isComplete" and "volume" carry omitempty.
MarshalCandle(c) ==
    [x |-> c.Timestamp, y |-> c.Values,
     keys |-> {"x", "y"} \cup (IF c.IsComplete THEN {"isComplete"} ELSE {})
                         \cup (IF c.Volume # 0 THEN {"volume"} ELSE {}),
     isComplete |-> c.IsComplete, volume |-> c.Volume]

\* A decoder that would take a candle without "isComplete" for a complete one.
UnmarshalCandle_AbsentIsComplete(j) ==
    [Timestamp |-> j.x, Values |-> j.y,
     IsComplete |-> IF "isComplete" \in j.keys THEN j.isComplete ELSE TRUE,
     Volume |-> IF "volume" \in j.keys THEN j.volume ELSE 0]

\* json.Unmarshal of one candle: an absent key leaves the zero value.
UnmarshalCandle(j) ==
    [Timestamp |-> j.x, Values |-> j.y,
     IsComplete |-> IF "isComplete" \in j.keys THEN j.isComplete ELSE FALSE,
     Volume |-> IF "volume" \in j.keys THEN j.volume ELSE 0]

Marshal(s) == [k \in 1..Len(s) |-> MarshalCandle(s[k])]

Unmarshal(data) == [k \in 1..Len(data) |-> UnmarshalCandle(data[k])]

\* A fully written file holding `data`.
FileOf(data) == [exists |-> TRUE, ok |-> TRUE, data |-> data]

\* os.WriteFile's open(O_CREATE|O_TRUNC): an empty file.
Truncated == [exists |-> TRUE, ok |-> FALSE, data |-> <<>>]

\* The bytes of SaveTimeFrame for a series: the copy of at most maxCandles
\* candles, marshalled (price_service.go:586-612).
SaveBytes(s) == Marshal(KeepRecent(s))

\* A write of `data` at offset 0 into a file that already holds x: a longer or
\* equal write replaces it, a shorter one leaves x's tail behind (the byte
\* length is taken to grow with the number of candles).
WriteInto(x, data) ==
    IF Len(data) >= Len(x.data) THEN FileOf(data)
    ELSE [exists |-> TRUE, ok |-> FALSE, data |-> data]

\* SaveTimeFrame run to completion with no other save of the timeframe in flight:
\* the staging file is written and renamed over the target.
SaveDone(fs, tf, s) ==
    [fs EXCEPT ![tf] = [target |-> FileOf(SaveBytes(s)), tmp |-> NoFile]]

\* LoadTimeFrame's error: "missing" (os.IsNotExist), "parse", or "none".
LoadError(fs, tf) ==
    IF ~fs[tf].target.exists THEN "missing"
    ELSE IF ~fs[tf].target.ok THEN "parse"
    ELSE "none"

\* The series LoadTimeFrame installs (price_service.go:686-698).
LoadedSeries(fs, tf) == KeepRecent(Unmarshal(fs[tf].target.data))

\* --------------------------------------------------------------- broadcast

\* What one broadcastToClients call can do (price_service.go:554-573).  With
\* every registered transport writable, all of them get the message.  When a
\* write fails, the clients ranged over before it (any set of the writable ones:
\* the order of a map range is unspecified) have the message, the failing
\* transport is closed, and the caller then waits in clientsLock.Lock() for the
\* read lock it still holds itself: the call never returns.
BroadcastOutcomes ==
    LET failing == {c \in clients : conns[c] # "open"}
    IN  IF failing = {} THEN {[ok |-> TRUE, got |-> clients, failed |-> {}]}
        ELSE {[ok |-> FALSE, got |-> R, failed |-> {f}] :
                 f \in failing, R \in SUBSET (clients \ failing)}

\* The effect of the call with outcome `out` on the transports and the history.
Emit(out, msg, evs) ==
    /\ conns' = [c \in Conns |-> IF c \in out.failed THEN "closed" ELSE conns[c]]
    /\ bcast' = [msg |-> msg, targets |-> clients,
                 writable |-> {c \in clients : conns[c] = "open"},
                 got |-> out.got, failed |-> out.failed, done |-> out.ok]
    /\ events' = Append(evs, msg)
    /\ UNCHANGED clients

\* The caller stuck inside broadcastToClients.
Blocked(d) == [d EXCEPT !.pc = "blocked"]

\* -------------------------------------------------------------------- boot

BasePrice == 100

\* The first n candles of Initialize's loop for the draws d, started at time t
\* (price_service.go:59-120).
RECURSIVE InitCandles(_, _, _)
InitCandles(d, n, t) ==
    IF n = 0 THEN <<>>
    ELSE LET prev == InitCandles(d, n - 1, t)
             lastClose == IF n = 1 THEN BasePrice ELSE Last(prev).Values[4]
             minutesAgo == maxCandles - n
             ts == NormalizeTimestamp(TimeFrame1Min, (t - minutesAgo * 60) * 1000)
             lc == lastClose * 10
             cur == IF lc + d[n].change < 0 THEN 0 ELSE lc + d[n].change
             open == lc + d[n].od
             high == Max(open, cur) + d[n].hi
             low0 == Min(open, cur) - d[n].lo
             low == IF low0 > high THEN high - d[n].fix ELSE low0
         IN  Append(prev, CandleData(ts, Round(open), Round(high), Round(low),
                                     Round(cur), TRUE, d[n].vol))

\* The series initializeHigherTimeframes can store for tf from the minute candles
\* (price_service.go:153-210).
InitialSeries(tf, minuteCandles) ==
    {KeepRecent(o) : o \in MapOrders(GroupCandles(tf, minuteCandles, Len(minuteCandles)))}

\* Initialize(1) followed by main's SaveAllTimeFrames: the base series is
\* generated, every derived series is grouped from it, every file is written.
Initialize(d) ==
    LET base == InitCandles(d, maxCandles, now)
    IN  \E s5 \in InitialSeries(TimeFrame5Min, base),
           s15 \in InitialSeries(TimeFrame15Min, base),
           s1h \in InitialSeries(TimeFrame1Hour, base),
           s4h \in InitialSeries(TimeFrame4Hour, base),
           s1d \in InitialSeries(TimeFrame1Day, base) :
          LET tfd == [tf \in TimeFrames |->
                        CASE tf = TimeFrame1Min -> base
                          [] tf = TimeFrame5Min -> s5
                          [] tf = TimeFrame15Min -> s15
                          [] tf = TimeFrame1Hour -> s1h
                          [] tf = TimeFrame4Hour -> s4h
                          [] tf = TimeFrame1Day -> s1d]
          IN  /\ timeFrameData' = tfd
              /\ hasSeries' = TimeFrames
              /\ files' = [tf \in TimeFrames |->
                             [target |-> FileOf(SaveBytes(tfd[tf])), tmp |-> NoFile]]

\* The order LoadAllTimeFrames goes through the timeframes in
\* (price_service.go:648-655).
LoadOrder == <<TimeFrame1Min>> \o HigherTimeframes

\* A variant of LoadAllTimeFrames that gives up at the first file it cannot
\* load.
LoadAllTimeFrames_StopAtFirstError ==
    LET loaded == {LoadOrder[k] : k \in {k \in 1..Len(LoadOrder) :
                      \A j \in 1..k : LoadError(files, LoadOrder[j]) = "none"}}
    IN  /\ timeFrameData' = [tf \in TimeFrames |->
                               IF tf \in loaded THEN LoadedSeries(files, tf)
                               ELSE timeFrameData[tf]]
        /\ hasSeries' = hasSeries \cup loaded
        /\ UNCHANGED files

\* LoadAllTimeFrames (price_service.go:647-675): every file that reads and
\* parses is installed.
LoadAllTimeFrames ==
    LET loaded == {tf \in TimeFrames : LoadError(files, tf) = "none"}
    IN  /\ timeFrameData' = [tf \in TimeFrames |->
                               IF tf \in loaded THEN LoadedSeries(files, tf)
                               ELSE timeFrameData[tf]]
        /\ hasSeries' = hasSeries \cup loaded
        /\ UNCHANGED files

\* Its result: nil only when a file loaded and no file failed to parse.
LoadAllOk ==
    /\ \E tf \in TimeFrames : LoadError(files, tf) = "none"
    /\ \A tf \in TimeFrames : LoadError(files, tf) # "parse"

\* main up to the first StartNewCandle (cmd/main.go:31-40).
Main(d) ==
    /\ driver.pc = "boot"
    /\ IF LoadAllOk THEN LoadAllTimeFrames ELSE Initialize(d)
    /\ driver' = [driver EXCEPT !.pc = "idle"]
    /\ hist' = [NoHist EXCEPT
                  !.appended = [tf \in TimeFrames |->
                                  [k \in 1..Len(timeFrameData'[tf]) |->
                                     timeFrameData'[tf][k].Timestamp]],
                  !.count = [tf \in TimeFrames |-> Len(timeFrameData'[tf])]]
    /\ UNCHANGED <<now, reply, norm, reader, currentCandle, clients, conns, savers, events, bcast, frontend>>

\* The service used as constructed, with nothing seeded or loaded.
Unseeded ==
    /\ driver.pc = "boot"
    /\ driver' = [driver EXCEPT !.pc = "idle"]
    /\ UNCHANGED <<now, reply, norm, reader, timeFrameData, hasSeries, currentCandle, clients, conns,
                   savers, files, events, bcast, hist, frontend>>

\* The wall clock moves by dt seconds: forward, or back when it is set back.
Tick(dt) ==
    /\ now + dt <= MaxClock
    /\ now + dt >= 0
    /\ now' = now + dt
    /\ UNCHANGED <<reply, norm, reader, timeFrameData, hasSeries, currentCandle, clients, conns, driver,
                   savers, files, events, bcast, hist, frontend>>

\* ------------------------------------------------------------------ history

HistAppend(h, tf, ts) ==
    [h EXCEPT !.appended[tf] = KeepRecent(Append(@, ts)),
              !.count[tf] = Min(@ + 1, maxCandles + 1)]

HistSeed(h, tf, c) == [h EXCEPT !.folded[tf] = <<c>>]

HistFold(h, tf, ts, c) ==
    IF h.folded[tf] # <<>> /\ NormalizeTimestamp(tf, h.folded[tf][1].Timestamp) = ts
    THEN [h EXCEPT !.folded[tf] = Append(@, c)]
    ELSE h

\* ------------------------------------------------------------------ driver

\* A goroutine `go func(tf) { ps.SaveTimeFrame(tf) }` started, not yet run.
Spawn(sv, tf) ==
    [sv EXCEPT ![tf] = Append(@, [pc |-> "go", hdr |-> <<>>, data |-> <<>>, fd |-> "none"])]

\* A variant of OpenPrice that applies the drawn change twice.
OpenPrice_Doubled(lastClose, change) ==
    LET rounded == Round(lastClose * 10 + 2 * change)
    IN  IF rounded < MinPrice THEN MinPrice ELSE rounded

\* The open of a new candle (price_service.go:238-244): the last close moved by
\* the drawn change (mills), rounded to hundredths and floored at 0.01.
OpenPrice(lastClose, change) ==
    LET rounded == Round(lastClose * 10 + change)
    IN  IF rounded < MinPrice THEN MinPrice ELSE rounded

\* A variant of NextTimestamp that trusts the wall clock.
NextTimestamp_WallClock(normalized, lastTimestamp) == normalized

\* The timestamp of a new candle (price_service.go:250-253): the minute of the
\* wall clock, or one minute after the last timestamp when that is not later.
NextTimestamp(normalized, lastTimestamp) ==
    IF normalized <= lastTimestamp THEN lastTimestamp + MsPerMinute ELSE normalized

\* StartNewCandle's body (price_service.go:220-275) for the draws change, volume.
StartBody(change, volume) ==
    LET minuteCandles == timeFrameData[TimeFrame1Min]
        seeded == TimeFrame1Min \in hasSeries /\ Len(minuteCandles) > 0
        lastClose == IF seeded THEN Last(minuteCandles).Values[4] ELSE DefaultPrice
        lastTimestamp == IF seeded THEN Last(minuteCandles).Timestamp
                         ELSE (now - 60) * 1000
        open == OpenPrice(lastClose, change)
        normalized == NormalizeTimestamp(TimeFrame1Min, now * 1000)
        timestamp == NextTimestamp(normalized, lastTimestamp)
        newCandle == CandleData(timestamp, open, open, open, open, FALSE, volume)
    IN  /\ driver.started < MaxStarts
        /\ currentCandle' = <<newCandle>>
        /\ \E out \in BroadcastOutcomes :
              /\ Emit(out, UpdateMessage("new", newCandle, TimeFrame1Min), <<>>)
              /\ driver' = IF out.ok
                           THEN [driver EXCEPT !.ticks = 0, !.started = @ + 1]
                           ELSE [Blocked(driver) EXCEPT !.started = @ + 1]
        /\ UNCHANGED <<now, reply, norm, reader, timeFrameData, hasSeries, savers, files, hist, frontend>>

StartNewCandle(change, volume) ==
    /\ driver.pc = "idle"
    /\ StartBody(change, volume)

\* A variant of UpdateNothing that would go on to tick the candle it started
\* and announce it as an update.
UpdateNothing_Ticked(open, volume) ==
    LET first == OpenPrice(DefaultPrice, open)
        ticked == CandleData(NormalizeTimestamp(TimeFrame1Min, now * 1000),
                             first, first + 1, first, first + 1, FALSE, volume)
    IN  /\ driver.started < MaxStarts
        /\ currentCandle' = <<ticked>>
        /\ \E out \in BroadcastOutcomes :
              /\ Emit(out, UpdateMessage("update", ticked, TimeFrame1Min), <<>>)
              /\ driver' = IF out.ok
                           THEN [driver EXCEPT !.ticks = 1, !.started = @ + 1]
                           ELSE [Blocked(driver) EXCEPT !.started = @ + 1]
        /\ UNCHANGED <<now, reply, norm, reader, timeFrameData, hasSeries, savers, files, hist, frontend>>

\* UpdateCurrentCandle when there is no current candle
\* (price_service.go:279-282): StartNewCandle, then return.
UpdateNothing(open, volume) == StartBody(open, volume)

\* UpdateCurrentCandle (price_service.go:278-321) for the draws change, dv; with
\* no current candle it is StartNewCandle, which draws open and volume.
UpdateCurrentCandle(change, dv, open, volume) ==
    /\ driver.pc = "idle"
    /\ IF currentCandle = <<>> THEN UpdateNothing(open, volume)
       ELSE LET cur == currentCandle[1]
                rounded == Round(cur.Values[4] * 10 + change)
                close == IF rounded < MinPrice THEN MinPrice ELSE rounded
                updated == [cur EXCEPT !.Values = Widen(cur.Values, close),
                                       !.Volume = cur.Volume + dv]
            IN  /\ driver.ticks < MaxTicks
                /\ currentCandle' = <<updated>>
                /\ \E out \in BroadcastOutcomes :
                      /\ Emit(out, UpdateMessage("update", updated, TimeFrame1Min), <<>>)
                      /\ driver' = IF out.ok THEN [driver EXCEPT !.ticks = @ + 1]
                                   ELSE Blocked(driver)
                /\ UNCHANGED <<now, reply, norm, reader, timeFrameData, hasSeries, savers, files, hist, frontend>>

\* An early return that would announce the missing candle before it returns.
FinalizeNothing_Announced ==
    /\ \E out \in BroadcastOutcomes :
          /\ Emit(out, UpdateMessage("update", NoCandle, TimeFrame1Min), <<>>)
          /\ driver' = IF out.ok THEN driver ELSE Blocked(driver)
    /\ UNCHANGED <<now, reply, norm, reader, timeFrameData, hasSeries, currentCandle, savers, files,
                   hist, frontend>>

\* FinalizeCurrentCandle's early return when there is no current candle
\* (price_service.go:325-327): the call has emitted nothing.
FinalizeNothing ==
    /\ events' = <<>>
    /\ UNCHANGED <<now, reply, norm, reader, timeFrameData, hasSeries, currentCandle, clients, conns,
                   driver, savers, files, bcast, hist, frontend>>

\* A finalization that would leave the candle marked open.
MarkComplete_Left(c) == c

\* `ps.currentCandle.IsComplete = true` (price_service.go:330).
MarkComplete(c) == [c EXCEPT !.IsComplete = TRUE]

\* FinalizeCurrentCandle up to its call of updateHigherTimeframes
\* (price_service.go:324-356).
FinalizeCurrentCandle ==
    /\ driver.pc = "idle"
    /\ \A tf \in TimeFrames : Len(savers[tf]) < MaxSavers
    /\ IF currentCandle = <<>>
       THEN FinalizeNothing
       ELSE LET finalCandle == MarkComplete(currentCandle[1])
            IN  /\ currentCandle' = <<finalCandle>>
                /\ timeFrameData' =
                      [timeFrameData EXCEPT
                         ![TimeFrame1Min] = Trim(Append(@, finalCandle))]
                /\ hasSeries' = hasSeries \cup {TimeFrame1Min}
                /\ hist' = HistAppend(hist, TimeFrame1Min, finalCandle.Timestamp)
                /\ \E out \in BroadcastOutcomes :
                      /\ Emit(out, UpdateMessage("update", finalCandle, TimeFrame1Min), <<>>)
                      /\ driver' = IF out.ok
                                   THEN [driver EXCEPT !.pc = "higher", !.i = 1,
                                                       !.final = finalCandle,
                                                       !.prevFin = FALSE]
                                   ELSE Blocked(driver)
                /\ UNCHANGED <<now, reply, norm, reader, savers, files, frontend>>

\* The driver after the loop body for timeframe number driver.i: the next
\* timeframe, or the deferred Unlock and the return to FinalizeCurrentCandle.
NextTimeframe(d) ==
    IF d.i < Len(HigherTimeframes)
    THEN [d EXCEPT !.pc = "higher", !.i = @ + 1, !.prevFin = FALSE, !.lock = TRUE]
    ELSE [d EXCEPT !.pc = "finish", !.i = 0, !.prevFin = FALSE, !.lock = FALSE]

\* updateHigherTimeframes, new-candle branch from the creation of the candle on
\* (price_service.go:423-455): append, trim, "new", and the save goroutine when
\* the previous candle was finalized.
AppendNewCandle(tf, ts, prevFin) ==
    LET c == driver.final
        newTimeframeCandle == SeedCandle(ts, c, FALSE)
    IN  /\ timeFrameData' = [timeFrameData EXCEPT
                               ![tf] = Trim(Append(@, newTimeframeCandle))]
        /\ hasSeries' = hasSeries \cup {tf}
        /\ hist' = HistSeed(HistAppend(hist, tf, ts), tf, c)
        /\ \E out \in BroadcastOutcomes :
              /\ Emit(out, UpdateMessage("new", newTimeframeCandle, tf), events)
              /\ driver' = IF out.ok THEN NextTimeframe(driver)
                           ELSE [Blocked(driver) EXCEPT !.lock = TRUE]
              /\ savers' = IF out.ok /\ prevFin THEN Spawn(savers, tf) ELSE savers
        /\ UNCHANGED <<now, reply, norm, reader, currentCandle, files, frontend>>

\* updateHigherTimeframes, one timeframe, up to its first broadcast
\* (price_service.go:385-480); the Lock of line 382 is taken with the first.
HigherTimeframe ==
    /\ driver.pc = "higher"
    /\ LET tf == HigherTimeframes[driver.i]
           s == timeFrameData[tf]
           c == driver.final
           normalizedTimestamp == NormalizeTimestamp(tf, c.Timestamp)
           candleIndex == IndexOf(s, normalizedTimestamp)
       IN  IF candleIndex = 0
           THEN IF Len(s) > 0 /\ ~Last(s).IsComplete
                THEN LET lastCandle == Last(ForceFinalize(s))
                     IN  /\ timeFrameData' = [timeFrameData EXCEPT ![tf] = ForceFinalize(s)]
                         /\ hasSeries' = hasSeries \cup {tf}
                         /\ \E out \in BroadcastOutcomes :
                               /\ Emit(out, UpdateMessage("update", lastCandle, tf), events)
                               /\ driver' = IF out.ok
                                            THEN [driver EXCEPT !.pc = "append",
                                                                !.prevFin = TRUE,
                                                                !.lock = TRUE]
                                            ELSE [Blocked(driver) EXCEPT !.lock = TRUE]
                         /\ UNCHANGED <<now, reply, norm, reader, currentCandle, savers, files, hist, frontend>>
                ELSE AppendNewCandle(tf, normalizedTimestamp, FALSE)
           ELSE LET candle == UpdateExisting(s[candleIndex], c)
                IN  /\ timeFrameData' =
                          [timeFrameData EXCEPT ![tf] = [s EXCEPT ![candleIndex] = candle]]
                    /\ hasSeries' = hasSeries \cup {tf}
                    /\ hist' = HistFold(hist, tf, normalizedTimestamp, c)
                    /\ \E out \in BroadcastOutcomes :
                          /\ Emit(out, UpdateMessage("update", candle, tf), events)
                          /\ driver' = IF out.ok
                                       THEN [driver EXCEPT !.pc = "check", !.lock = TRUE]
                                       ELSE [Blocked(driver) EXCEPT !.lock = TRUE]
                    /\ UNCHANGED <<now, reply, norm, reader, currentCandle, savers, files, frontend>>

\* The new-candle branch after the previous candle was force-finalized.
HigherAppend ==
    /\ driver.pc = "append"
    /\ LET tf == HigherTimeframes[driver.i]
       IN  AppendNewCandle(tf, NormalizeTimestamp(tf, driver.final.Timestamp), driver.prevFin)

\* The wall-clock completion check on the candle just updated
\* (price_service.go:482-502).
HigherCheck ==
    /\ driver.pc = "check"
    /\ LET tf == HigherTimeframes[driver.i]
           s == timeFrameData[tf]
           normalizedTimestamp == NormalizeTimestamp(tf, driver.final.Timestamp)
           candleIndex == IndexOf(s, normalizedTimestamp)
           candleEndTime == normalizedTimestamp \div 1000 + GetDuration(tf)
       IN  IF now > candleEndTime /\ ~s[candleIndex].IsComplete
           THEN LET candle == [s[candleIndex] EXCEPT !.IsComplete = TRUE]
                IN  /\ timeFrameData' =
                          [timeFrameData EXCEPT ![tf] = [s EXCEPT ![candleIndex] = candle]]
                    /\ savers' = Spawn(savers, tf)
                    /\ \E out \in BroadcastOutcomes :
                          /\ Emit(out, UpdateMessage("update", candle, tf), events)
                          /\ driver' = IF out.ok THEN NextTimeframe(driver)
                                       ELSE Blocked(driver)
                    /\ UNCHANGED <<now, reply, norm, reader, hasSeries, currentCandle, files, hist, frontend>>
           ELSE /\ driver' = NextTimeframe(driver)
                /\ UNCHANGED <<now, reply, norm, reader, timeFrameData, hasSeries, currentCandle, clients,
                               conns, savers, files, events, bcast, hist, frontend>>

\* FinalizeCurrentCandle after updateHigherTimeframes returned
\* (price_service.go:361-369): the quarter-hour save of the base series, run by
\* the caller itself, and the reset of the current candle.
FinalizeReturn ==
    /\ driver.pc = "finish"
    /\ files' = IF ((now % 3600) \div 60) % 15 = 0
                THEN SaveDone(files, TimeFrame1Min, timeFrameData[TimeFrame1Min])
                ELSE files
    /\ currentCandle' = <<>>
    /\ driver' = [driver EXCEPT !.pc = "idle", !.final = NoCandle]
    /\ UNCHANGED <<now, reply, norm, reader, timeFrameData, hasSeries, clients, conns, savers, events,
                   bcast, hist, frontend>>

\* ------------------------------------- the service of src/unnamed/part_005

\* FinalizeCurrentCandle of the earlier service up to its call of
\* updateHigherTimeframes (part_005:298-330): the same without the trim.
LegacyFinalizeCurrentCandle ==
    /\ driver.pc = "idle"
    /\ IF currentCandle = <<>>
       THEN FinalizeNothing
       ELSE LET finalCandle == MarkComplete(currentCandle[1])
            IN  /\ currentCandle' = <<finalCandle>>
                /\ timeFrameData' =
                      [timeFrameData EXCEPT ![TimeFrame1Min] = Append(@, finalCandle)]
                /\ hasSeries' = hasSeries \cup {TimeFrame1Min}
                /\ hist' = HistAppend(hist, TimeFrame1Min, finalCandle.Timestamp)
                /\ \E out \in BroadcastOutcomes :
                      /\ Emit(out, UpdateMessage("update", finalCandle, TimeFrame1Min), <<>>)
                      /\ driver' = IF out.ok
                                   THEN [driver EXCEPT !.pc = "higher", !.i = 1,
                                                       !.final = finalCandle,
                                                       !.prevFin = FALSE]
                                   ELSE Blocked(driver)
                /\ UNCHANGED <<now, reply, norm, reader, savers, files, frontend>>

\* updateHigherTimeframes of the earlier service, one timeframe, up to its
\* first broadcast (part_005:351-411): a candle of a new bucket is appended and
\* announced, one of a known bucket is folded into its entry.
LegacyHigherTimeframe ==
    /\ driver.pc = "higher"
    /\ LET tf == HigherTimeframes[driver.i]
           s == timeFrameData[tf]
           c == driver.final
           normalizedTimestamp == NormalizeTimestamp(tf, c.Timestamp)
           candleIndex == IndexOf(s, normalizedTimestamp)
       IN  IF candleIndex = 0
           THEN LET newTimeframeCandle == SeedCandle(normalizedTimestamp, c, FALSE)
                IN  /\ timeFrameData' = [timeFrameData EXCEPT
                                           ![tf] = Append(@, newTimeframeCandle)]
                    /\ hist' = HistSeed(HistAppend(hist, tf, normalizedTimestamp), tf, c)
                    /\ \E out \in BroadcastOutcomes :
                          /\ Emit(out, UpdateMessage("new", newTimeframeCandle, tf), events)
                          /\ driver' = IF out.ok THEN NextTimeframe(driver)
                                       ELSE [Blocked(driver) EXCEPT !.lock = TRUE]
           ELSE LET candle == FoldCandle(s[candleIndex], c)
                IN  /\ timeFrameData' =
                          [timeFrameData EXCEPT ![tf] = [s EXCEPT ![candleIndex] = candle]]
                    /\ hist' = HistFold(hist, tf, normalizedTimestamp, c)
                    /\ \E out \in BroadcastOutcomes :
                          /\ Emit(out, UpdateMessage("update", candle, tf), events)
                          /\ driver' = IF out.ok
                                       THEN [driver EXCEPT !.pc = "check", !.lock = TRUE]
                                       ELSE [Blocked(driver) EXCEPT !.lock = TRUE]
    /\ hasSeries' = hasSeries \cup {HigherTimeframes[driver.i]}
    /\ UNCHANGED <<now, reply, norm, reader, currentCandle, savers, files, frontend>>

\* Its wall-clock completion check (part_005:413-430): the candle is marked
\* complete and ps.SaveTimeFrame(tf) is called by the caller itself, which
\* enters timeFrameDataLock.RLock() (part_005:531) with the lock of line 351
\* still held.
LegacyHigherCheck ==
    /\ driver.pc = "check"
    /\ LET tf == HigherTimeframes[driver.i]
           s == timeFrameData[tf]
           normalizedTimestamp == NormalizeTimestamp(tf, driver.final.Timestamp)
           candleIndex == IndexOf(s, normalizedTimestamp)
           candleEndTime == normalizedTimestamp \div 1000 + GetDuration(tf)
       IN  IF now > candleEndTime /\ ~s[candleIndex].IsComplete
           THEN /\ timeFrameData' =
                      [timeFrameData EXCEPT ![tf][candleIndex].IsComplete = TRUE]
                /\ driver' = [driver EXCEPT !.pc = "saving"]
           ELSE /\ driver' = NextTimeframe(driver)
                /\ UNCHANGED timeFrameData
    /\ UNCHANGED <<now, reply, norm, reader, hasSeries, currentCandle, clients, conns, savers,
                   files, events, bcast, hist, frontend>>

\* ------------------------------------------------------ save goroutines

Remove(q, k) == SubSeq(q, 1, k - 1) \o SubSeq(q, k + 1, Len(q))

SaversInFlight ==
    Len(savers[TimeFrame1Min]) + Len(savers[TimeFrame5Min]) + Len(savers[TimeFrame15Min])
    + Len(savers[TimeFrame1Hour]) + Len(savers[TimeFrame4Hour]) + Len(savers[TimeFrame1Day])

\* No SaveTimeFrame goroutine is in flight.
Quiet == SaversInFlight = 0

\* What the unlocked copy() of SaveTimeFrame can read from one slot of the
\* backing array: the candle as it was when the slice header was taken, or, field
\* by field, the candle the writer has since made of it.
RacyCandle(h, cur) ==
    LET later == {h} \cup {cur[j] : j \in {j \in 1..Len(cur) : cur[j].Timestamp = h.Timestamp}}
    IN  {[Timestamp |-> h.Timestamp, Values |-> v.Values, IsComplete |-> f.IsComplete,
          Volume |-> w.Volume] : v \in later, f \in later, w \in later}

RacyCopies(hdr, cur) ==
    {c \in [1..Len(hdr) -> UNION {RacyCandle(hdr[i], cur) : i \in 1..Len(hdr)}] :
        \A i \in 1..Len(hdr) : c[i] \in RacyCandle(hdr[i], cur)}

\* SaveTimeFrame called on a goroutine of its own (price_service.go:448-452,
\* 492-496): the call is in flight.
SaveTimeFrame(tf) ==
    /\ driver.pc = "idle"
    /\ SaversInFlight < MaxSavers
    /\ savers' = Spawn(savers, tf)
    /\ UNCHANGED <<now, reply, norm, reader, timeFrameData, hasSeries, currentCandle, clients, conns,
                   driver, files, events, bcast, hist, frontend>>

\* SaveTimeFrame, lines 578-584: the slice header is read under the read lock.
SaveRead(tf, k) ==
    /\ k \in 1..Len(savers[tf])
    /\ savers[tf][k].pc = "go"
    /\ ~driver.lock
    /\ savers' = IF tf \in hasSeries
                 THEN [savers EXCEPT ![tf][k].pc = "copy", ![tf][k].hdr = timeFrameData[tf]]
                 ELSE [savers EXCEPT ![tf] = Remove(@, k)]
    /\ hist' = IF tf \in hasSeries THEN hist
               ELSE [hist EXCEPT !.op = [name |-> "SaveTimeFrame", tf |-> tf,
                                         err |-> "nodata", seq |-> 1 - hist.op.seq,
                                         prev |-> hist.op.name]]
    /\ UNCHANGED <<now, reply, norm, reader, timeFrameData, hasSeries, currentCandle, clients, conns,
                   driver, files, events, bcast, frontend>>

\* SaveTimeFrame, lines 588-615 up to os.WriteFile's open: the candles are
\* copied without the lock and marshalled, the staging file is created or
\* truncated.
SaveCopy(tf, k) ==
    /\ k \in 1..Len(savers[tf])
    /\ savers[tf][k].pc = "copy"
    /\ \E candlesCopy \in RacyCopies(KeepRecent(savers[tf][k].hdr), timeFrameData[tf]) :
          savers' = [savers EXCEPT ![tf][k].pc = "write",
                                   ![tf][k].data = Marshal(candlesCopy),
                                   ![tf][k].fd = "tmp"]
    /\ files' = [files EXCEPT ![tf].tmp = Truncated]
    /\ UNCHANGED <<now, reply, norm, reader, timeFrameData, hasSeries, currentCandle, clients, conns,
                   driver, events, bcast, hist, frontend>>

\* os.WriteFile's write and close (line 615): the bytes go to the file the
\* descriptor was opened on, wherever a rename has since put it.
SaveWrite(tf, k) ==
    /\ k \in 1..Len(savers[tf])
    /\ savers[tf][k].pc = "write"
    /\ LET sv == savers[tf][k]
       IN  files' = CASE sv.fd = "tmp" ->
                           [files EXCEPT ![tf].tmp = WriteInto(@, sv.data)]
                      [] sv.fd = "target" ->
                           [files EXCEPT ![tf].target = WriteInto(@, sv.data)]
                      [] OTHER -> files
    /\ savers' = [savers EXCEPT ![tf][k].pc = "rename", ![tf][k].fd = "none"]
    /\ UNCHANGED <<now, reply, norm, reader, timeFrameData, hasSeries, currentCandle, clients, conns,
                   driver, events, bcast, hist, frontend>>

\* os.Rename (line 620) and the return: the staging path replaces the target;
\* with no staging file left the rename fails.
SaveRename(tf, k) ==
    /\ k \in 1..Len(savers[tf])
    /\ savers[tf][k].pc = "rename"
    /\ LET moved == files[tf].tmp.exists
           rest == Remove(savers[tf], k)
       IN  /\ files' = IF moved
                       THEN [files EXCEPT ![tf] = [target |-> files[tf].tmp, tmp |-> NoFile]]
                       ELSE files
           /\ savers' = [savers EXCEPT ![tf] =
                           [j \in 1..Len(rest) |->
                              IF ~moved THEN rest[j]
                              ELSE IF rest[j].fd = "tmp" THEN [rest[j] EXCEPT !.fd = "target"]
                              ELSE IF rest[j].fd = "target" THEN [rest[j] EXCEPT !.fd = "orphan"]
                              ELSE rest[j]]]
           /\ hist' = [hist EXCEPT !.op = [name |-> "SaveTimeFrame", tf |-> tf,
                                           err |-> IF moved THEN "none" ELSE "rename",
                                           seq |-> 1 - hist.op.seq,
                                           prev |-> hist.op.name]]
    /\ UNCHANGED <<now, reply, norm, reader, timeFrameData, hasSeries, currentCandle, clients, conns,
                   driver, events, bcast, frontend>>

\* LoadTimeFrame (price_service.go:678-703).
LoadTimeFrame(tf) ==
    /\ driver.pc = "idle"
    /\ LET err == LoadError(files, tf)
       IN  /\ IF err = "none"
              THEN /\ timeFrameData' = [timeFrameData EXCEPT ![tf] = LoadedSeries(files, tf)]
                   /\ hasSeries' = hasSeries \cup {tf}
              ELSE UNCHANGED <<timeFrameData, hasSeries>>
           /\ hist' = [hist EXCEPT !.op = [name |-> "LoadTimeFrame", tf |-> tf, err |-> err,
                                           seq |-> 1 - hist.op.seq,
                                           prev |-> hist.op.name]]
    /\ UNCHANGED <<now, reply, norm, reader, currentCandle, clients, conns, driver, savers, files,
                   events, bcast, frontend>>

\* A variant of SaveAllTimeFrames that gives up at the first timeframe it
\* cannot save.
SaveAllTimeFrames_StopAtFirstError ==
    LET saved == {LoadOrder[k] : k \in {k \in 1..Len(LoadOrder) :
                     \A j \in 1..k : LoadOrder[j] \in hasSeries}}
    IN  /\ driver.pc = "idle" /\ Quiet
        /\ files' = [tf \in TimeFrames |->
                       IF tf \in saved THEN SaveDone(files, tf, timeFrameData[tf])[tf]
                       ELSE files[tf]]
        /\ hist' = [hist EXCEPT !.op = [name |-> "SaveAllTimeFrames", tf |-> TimeFrame1Min,
                                        err |-> IF hasSeries = TimeFrames THEN "none"
                                                ELSE "nodata",
                                        seq |-> 1 - hist.op.seq, prev |-> hist.op.name]]
        /\ UNCHANGED <<now, reply, norm, reader, timeFrameData, hasSeries, currentCandle, clients,
                       conns, driver, savers, events, bcast, frontend>>

\* SaveAllTimeFrames (price_service.go:629-644), called with no save in flight:
\* SaveTimeFrame for each timeframe in turn, an error logged and passed over.
SaveAllTimeFrames ==
    LET saved == hasSeries
    IN  /\ driver.pc = "idle" /\ Quiet
        /\ files' = [tf \in TimeFrames |->
                       IF tf \in saved THEN SaveDone(files, tf, timeFrameData[tf])[tf]
                       ELSE files[tf]]
        /\ hist' = [hist EXCEPT !.op = [name |-> "SaveAllTimeFrames", tf |-> TimeFrame1Min,
                                        err |-> IF hasSeries = TimeFrames THEN "none"
                                                ELSE "nodata",
                                        seq |-> 1 - hist.op.seq, prev |-> hist.op.name]]
        /\ UNCHANGED <<now, reply, norm, reader, timeFrameData, hasSeries, currentCandle, clients,
                       conns, driver, savers, events, bcast, frontend>>

\* The process stops and is started again on the same data directory.
Restart ==
    /\ driver.pc = "idle"
    /\ driver.runs < MaxRuns
    /\ timeFrameData' = EmptySeries
    /\ hasSeries' = {}
    /\ currentCandle' = <<>>
    /\ clients' = {}
    /\ conns' = [c \in Conns |-> "unused"]
    /\ driver' = [pc |-> "boot", i |-> 0, final |-> NoCandle, prevFin |-> FALSE,
                  lock |-> FALSE, ticks |-> 0, started |-> 0,
                  runs |-> driver.runs + 1]
    /\ savers' = [tf \in TimeFrames |-> <<>>]
    /\ events' = <<>>
    /\ bcast' = NoBroadcast
    /\ hist' = NoHist
    /\ UNCHANGED <<now, reply, norm, reader, files, frontend>>

\* A data file is removed from the data directory while the process is down.
FileRemoved(tf) ==
    /\ driver.pc = "boot"
    /\ files[tf].target.exists
    /\ files' = [files EXCEPT ![tf].target = NoFile]
    /\ UNCHANGED <<now, reply, norm, reader, timeFrameData, hasSeries, currentCandle, clients,
                   conns, driver, savers, events, bcast, hist, frontend>>

\* A data file is removed from the data directory under the running process,
\* between two calls of the service.
FileUnlinked(tf) ==
    /\ driver.pc = "idle" /\ Quiet
    /\ files[tf].target.exists
    /\ files' = [files EXCEPT ![tf].target = NoFile]
    /\ UNCHANGED <<now, reply, norm, reader, timeFrameData, hasSeries, currentCandle, clients,
                   conns, driver, savers, events, bcast, hist, frontend>>

\* A data file is left with bytes that do not parse while the process is down.
FileDamaged(tf) ==
    /\ driver.pc = "boot"
    /\ files[tf].target.exists /\ files[tf].target.ok
    /\ files' = [files EXCEPT ![tf].target = Truncated]
    /\ UNCHANGED <<now, reply, norm, reader, timeFrameData, hasSeries, currentCandle, clients,
                   conns, driver, savers, events, bcast, hist, frontend>>

\* ----------------------------------------------------------------- clients

\* HandleWebsocketSubscribe up to RegisterClient (handlers:121-138,
\* price_service.go:540-544); a broadcaster stuck with the read lock keeps
\* clientsLock.Lock() waiting.
RegisterClient(c) ==
    /\ conns[c] = "unused"
    /\ driver.pc # "blocked"
    /\ conns' = [conns EXCEPT ![c] = "open"]
    /\ clients' = clients \cup {c}
    /\ UNCHANGED <<now, reply, norm, reader, timeFrameData, hasSeries, currentCandle, driver, savers,
                   files, events, bcast, hist, frontend>>

\* The peer of an open connection goes away: writes to it fail from now on.
PeerGone(c) ==
    /\ conns[c] = "open"
    /\ conns' = [conns EXCEPT ![c] = "broken"]
    /\ UNCHANGED <<now, reply, norm, reader, timeFrameData, hasSeries, currentCandle, clients, driver,
                   savers, files, events, bcast, hist, frontend>>

\* The connection's reader goroutine sees ReadMessage fail (handlers:158-162):
\* UnregisterClient, then Close.
UnregisterClient(c) ==
    /\ c \in clients
    /\ conns[c] \in {"broken", "closed"}
    /\ driver.pc # "blocked"
    /\ clients' = clients \ {c}
    /\ conns' = [conns EXCEPT ![c] = "closed"]
    /\ UNCHANGED <<now, reply, norm, reader, timeFrameData, hasSeries, currentCandle, driver, savers,
                   files, events, bcast, hist, frontend>>

\* ------------------------------------------------------------------ readers

\* UpdateCurrentCandle on an existing candle up to its first write
\* (price_service.go:285-310): the candle's Values are replaced; the Volume is
\* written next.
UpdateValues(change) ==
    /\ driver.pc = "idle"
    /\ currentCandle # <<>>
    /\ driver.ticks < MaxTicks
    /\ LET cur == currentCandle[1]
           rounded == Round(cur.Values[4] * 10 + change)
           close == IF rounded < MinPrice THEN MinPrice ELSE rounded
       IN  currentCandle' = <<[cur EXCEPT !.Values = Widen(cur.Values, close)]>>
    /\ driver' = [driver EXCEPT !.pc = "volume"]
    /\ UNCHANGED <<now, reply, norm, reader, timeFrameData, hasSeries, clients, conns,
                   savers, files, events, bcast, hist, frontend>>

\* UpdateCurrentCandle from its second write on (price_service.go:313-320).
UpdateVolume(dv) ==
    /\ driver.pc = "volume"
    /\ LET updated == [currentCandle[1] EXCEPT !.Volume = @ + dv]
       IN  /\ currentCandle' = <<updated>>
           /\ \E out \in BroadcastOutcomes :
                 /\ Emit(out, UpdateMessage("update", updated, TimeFrame1Min), <<>>)
                 /\ driver' = IF out.ok
                              THEN [driver EXCEPT !.pc = "idle", !.ticks = @ + 1]
                              ELSE Blocked(driver)
    /\ UNCHANGED <<now, reply, norm, reader, timeFrameData, hasSeries, savers, files, hist, frontend>>

\* The driver is between two writes of the current candle.
MidWrite == driver.pc = "volume"

\* timeFrameDataLock is held exclusively (price_service.go:382-383).
HoldsExclusive == driver.lock

ReaderOps == {"GetCurrentCandle", "GetHistoryForTimeFrame"}

\* A handler goroutine enters a call of the service.
ReaderCall(op, tf) ==
    /\ reader.pc = "idle"
    /\ reader' = [NoReader EXCEPT !.pc = "called", !.op = op, !.tf = tf]
    /\ UNCHANGED <<now, reply, norm, timeFrameData, hasSeries, currentCandle, clients, conns,
                   driver, savers, files, events, bcast, hist, frontend>>

\* GetCurrentCandle, the nil check (price_service.go:508-510), no lock held.
GetCurrentCandleCheck ==
    /\ reader.pc = "called"
    /\ reader.op = "GetCurrentCandle"
    /\ reader' = IF currentCandle = <<>>
                 THEN [reader EXCEPT !.pc = "done"]
                 ELSE [reader EXCEPT !.pc = "checked", !.seen = currentCandle]
    /\ UNCHANGED <<now, reply, norm, timeFrameData, hasSeries, currentCandle, clients, conns,
                   driver, savers, files, events, bcast, hist, frontend>>

\* The candle a pointer loaded earlier points to now: the current candle while
\* it is the same object, else the object as FinalizeCurrentCandle left it.
Deref(seen) ==
    IF currentCandle # <<>> /\ currentCandle[1].Timestamp = seen[1].Timestamp
    THEN currentCandle[1]
    ELSE LET k == IndexOf(timeFrameData[TimeFrame1Min], seen[1].Timestamp)
         IN  IF k > 0 THEN timeFrameData[TimeFrame1Min][k]
             ELSE [seen[1] EXCEPT !.IsComplete = TRUE]

\* GetCurrentCandle, the copy (price_service.go:513-514), no lock held: the
\* unsynchronized second load of ps.currentCandle yields the pointer the check
\* saw or the one stored since; nil is a nil-pointer dereference.
GetCurrentCandleCopy ==
    /\ reader.pc = "checked"
    /\ \E reload \in BOOLEAN :
          reader' = IF reload /\ currentCandle = <<>>
                    THEN [reader EXCEPT !.pc = "panic"]
                    ELSE LET c == IF reload THEN currentCandle[1] ELSE Deref(reader.seen)
                         IN  [reader EXCEPT
                                !.pc = "done", !.got = <<c>>,
                                !.during = MidWrite /\ currentCandle # <<>>
                                           /\ c.Timestamp = currentCandle[1].Timestamp]
    /\ UNCHANGED <<now, reply, norm, timeFrameData, hasSeries, currentCandle, clients, conns,
                   driver, savers, files, events, bcast, hist, frontend>>

\* HandleWebsocketSubscribe from the upgrade to RegisterClient (handlers:121-138)
\* for the timeframe of the URL: the connection is registered; the current
\* candle is looked at only for the base timeframe (handlers:141).
SubscribeRegister(c) ==
    /\ reader.pc = "called"
    /\ reader.op = "HandleWebsocketSubscribe"
    /\ conns[c] = "unused"
    /\ driver.pc # "blocked"
    /\ conns' = [conns EXCEPT ![c] = "open"]
    /\ clients' = clients \cup {c}
    /\ reader' = [reader EXCEPT !.pc = IF reader.tf = TimeFrame1Min THEN "greet" ELSE "done",
                                 !.conn = c]
    /\ UNCHANGED <<now, reply, norm, timeFrameData, hasSeries, currentCandle, driver, savers,
                   files, events, bcast, hist, frontend>>

\* HandleWebsocketSubscribe, the first message (handlers:142-151): the current
\* candle, when GetCurrentCandle returns one, is marshalled as an "update" and
\* conn.WriteMessage is entered, no lock held.
SubscribeGreet ==
    /\ reader.pc = "greet"
    /\ reader' = [reader EXCEPT
                    !.pc = IF currentCandle = <<>> THEN "done" ELSE "writing",
                    !.seen = currentCandle,
                    !.got = IF currentCandle = <<>> THEN <<>>
                            ELSE <<UpdateMessage("update", currentCandle[1], reader.tf)>>]
    /\ UNCHANGED <<now, reply, norm, timeFrameData, hasSeries, currentCandle, clients, conns,
                   driver, savers, files, events, bcast, hist, frontend>>

\* The handler's conn.WriteMessage returns (handlers:150).
SubscribeWritten ==
    /\ reader.pc = "writing"
    /\ reader' = [reader EXCEPT !.pc = "done"]
    /\ UNCHANGED <<now, reply, norm, timeFrameData, hasSeries, currentCandle, clients, conns,
                   driver, savers, files, events, bcast, hist, frontend>>

\* A variant of SliceCopy that hands out the store's slice itself
\* (filteredCandles := candles).
SliceCopy_Alias(candles) == [cells |-> candles, backing |-> "store"]

\* make([]models.CandleData, len(candles)) and copy(filteredCandles, candles)
\* (price_service.go:528-529): the same candles in an array of the caller's own;
\* a CandleData holds its four values in place, so nothing is shared.
SliceCopy(candles) == [cells |-> candles, backing |-> "own"]

\* GetHistoryForTimeFrame(timeFrame) (price_service.go:518-537): under the read
\* lock, the stored series, plus the current candle for the base timeframe.
GetHistoryWithCurrent ==
    /\ reader.pc = "called"
    /\ reader.op = "GetHistoryForTimeFrame"
    /\ ~HoldsExclusive
    /\ LET withCurrent == reader.tf = TimeFrame1Min /\ currentCandle # <<>>
           candles == IF reader.tf \in hasSeries THEN timeFrameData[reader.tf] ELSE <<>>
           filteredCandles == SliceCopy(candles)
       IN  reader' = [reader EXCEPT
                        !.pc = "done",
                        !.got = IF reader.tf \in hasSeries /\ withCurrent
                                THEN filteredCandles.cells \o currentCandle
                                ELSE filteredCandles.cells,
                        !.backing = IF reader.tf \in hasSeries
                                    THEN filteredCandles.backing ELSE "own",
                        !.during = MidWrite /\ reader.tf \in hasSeries /\ withCurrent]
    /\ UNCHANGED <<now, reply, norm, timeFrameData, hasSeries, currentCandle, clients, conns,
                   driver, savers, files, events, bcast, hist, frontend>>

\* The call returns to the handler (a panic unwinds to net/http's recover).
ReaderReturn ==
    /\ reader.pc \in {"done", "panic"}
    /\ reader' = NoReader
    /\ UNCHANGED <<now, reply, norm, timeFrameData, hasSeries, currentCandle, clients, conns,
                   driver, savers, files, events, bcast, hist, frontend>>

\* ----------------------------------------------------------------- history

\* The candles of s with from <= Timestamp <= to, a bound <= 0 being absent.
RECURSIVE FilterRange(_, _, _)
FilterRange(s, from, to) ==
    IF s = <<>> THEN <<>>
    ELSE LET candle == Head(s)
             rest == FilterRange(Tail(s), from, to)
         IN  IF (from <= 0 \/ candle.Timestamp >= from) /\ (to <= 0 \/ candle.Timestamp <= to)
             THEN <<candle>> \o rest
             ELSE rest

\* An answer for a missing series that would still hand out the current candle.
NoSeries_Current(timeFrame) == currentCandle

\* `return []models.CandleData{}` when the store has no entry for the timeframe
\* (price_service.go:522-525).
NoSeries(timeFrame) == <<>>

\* GetHistoryForTimeFrame(timeFrame, from, to, limit) of the service the
\* handlers are written against.
GetHistoryForTimeFrame(timeFrame, from, to, limit) ==
    IF timeFrame \notin hasSeries THEN NoSeries(timeFrame)
    ELSE LET candles == timeFrameData[timeFrame]
             ranged == IF from > 0 \/ to > 0 THEN FilterRange(candles, from, to)
                       ELSE candles
             limited == IF limit > 0 /\ limit < Len(ranged)
                        THEN SubSeq(ranged, Len(ranged) - limit + 1, Len(ranged))
                        ELSE ranged
         IN  IF timeFrame = TimeFrame1Min /\ currentCandle # <<>>
             THEN Append(limited, currentCandle[1])
             ELSE limited

\* HandleHistoricalData up to the call's return (handlers:35-78); the read lock
\* is not granted while updateHigherTimeframes holds the lock.
HandleHistoricalData(timeFrame, from, to, limit) ==
    /\ reply = <<>>
    /\ ~driver.lock
    /\ reply' = <<[timeFrame |-> timeFrame, from |-> from, to |-> to, limit |-> limit,
                   history |-> GetHistoryForTimeFrame(timeFrame, from, to, limit)]>>
    /\ UNCHANGED <<now, timeFrameData, hasSeries, currentCandle, clients, conns, driver,
                   savers, files, events, bcast, hist, norm, reader, frontend>>

\* HandleHistoricalData's response is encoded and written (handlers:80-88).
Respond ==
    /\ reply # <<>>
    /\ reply' = <<>>
    /\ UNCHANGED <<now, timeFrameData, hasSeries, currentCandle, clients, conns, driver,
                   savers, files, events, bcast, hist, norm, reader, frontend>>

\* ---------------------------------------------------------------- frontend

\* The backend's variables, which the browser does not touch.
Backend ==
    <<now, timeFrameData, hasSeries, currentCandle, clients, conns, driver, savers,
      files, events, bcast, hist, reply, reader, norm>>

\* `if (ws && ws.readyState === WebSocket.OPEN) ws.close()`
\* (priceService.js:107-109): the socket starts closing, its close event
\* follows.
CloseSocket(f) ==
    IF f.ws # 0 /\ f.state[f.ws] = "open"
    THEN [f EXCEPT !.state[f.ws] = "closing"]
    ELSE f

\* clearTimeout(reconnectTimeout); reconnectTimeout = null
\* (priceService.js:47-50, 102-105): only the timer the variable names is
\* cancelled.
ClearReconnect(f) ==
    IF f.reconnectTimeout # 0
    THEN [f EXCEPT !.timers = @ \ {f.reconnectTimeout}, !.reconnectTimeout = 0]
    ELSE f

\* The body of connectWebSocket (priceService.js:44-96): the pending timer is
\* cleared, an open or connecting socket is closed, a new socket is created
\* with its handlers and becomes ws.
ConnectBody(f) ==
    LET cleared == ClearReconnect(f)
        closed == IF cleared.ws # 0 /\ cleared.state[cleared.ws] \in {"open", "connecting"}
                  THEN [cleared EXCEPT !.state[cleared.ws] = "closing"]
                  ELSE cleared
        n == f.created + 1
    IN  [closed EXCEPT !.ws = n, !.state[n] = "connecting", !.created = n]

\* The page calls connectWebSocket.
ConnectWebSocket ==
    /\ frontend.created < MaxSockets
    /\ frontend' = [ConnectBody(frontend) EXCEPT
                      !.asked = IF frontend.ws # 0 /\ frontend.state[frontend.ws] = "open"
                                THEN "replace" ELSE "connect"]
    /\ UNCHANGED Backend

\* The page calls disconnectWebSocket (priceService.js:101-110).
DisconnectWebSocket ==
    /\ frontend.created > 0
    /\ frontend' = [CloseSocket(ClearReconnect(frontend)) EXCEPT
                      !.asked = IF frontend.state[frontend.ws] = "open"
                                THEN "disconnect" ELSE "cancel"]
    /\ UNCHANGED Backend

\* The handshake of socket k succeeds: onopen.
SocketOpens(k) ==
    /\ frontend.state[k] = "connecting"
    /\ frontend' = [frontend EXCEPT !.state[k] = "open"]
    /\ UNCHANGED Backend

\* The server or the network ends socket k.
SocketDrops(k) ==
    /\ frontend.state[k] \in {"connecting", "open"}
    /\ frontend' = [frontend EXCEPT !.state[k] = "closing"]
    /\ UNCHANGED Backend

\* The close event of socket k is dispatched: its onclose handler
\* (priceService.js:79-86) sets a reconnect timer and stores it in
\* reconnectTimeout, whatever closed the socket.
SocketClosed(k) ==
    /\ frontend.state[k] = "closing"
    /\ frontend' = [frontend EXCEPT !.state[k] = "closed",
                                    !.timers = @ \cup {k},
                                    !.reconnectTimeout = k]
    /\ UNCHANGED Backend

\* The reconnect timer set by socket k fires: connectWebSocket(handlers)
\* (priceService.js:83-85).
ReconnectFires(k) ==
    /\ k \in frontend.timers
    /\ frontend.created < MaxSockets
    /\ frontend' = ConnectBody([frontend EXCEPT !.timers = @ \ {k}])
    /\ UNCHANGED Backend

\* The browser's price service, the page calling it at will.
NextFrontend ==
    \/ ConnectWebSocket
    \/ DisconnectWebSocket
    \/ \E k \in Sockets : SocketOpens(k)
    \/ \E k \in Sockets : SocketDrops(k)
    \/ \E k \in Sockets : SocketClosed(k)
    \/ \E k \in Sockets : ReconnectFires(k)

SpecFrontend == Init /\ [][NextFrontend]_vars

\* ---------------------------------------------------------- specifications

\* The sequences of draws Initialize is explored with.
InitDrawSeqs == {[n \in 1..(maxCandles + 1) |-> x] : x \in InitDraws}

\* The store: seeding, the candle life cycle with its aggregation and its save
\* goroutines, the wall clock.  The ticker loop calls the service again once
\* the saves it started have returned, and starts a candle when none is open.
Next ==
    \/ \E d \in InitDrawSeqs : Main(d)
    \/ Unseeded
    \/ driver.pc = "idle" /\ Quiet /\ \E dt \in ClockSteps : Tick(dt)
    \/ Quiet /\ currentCandle = <<>>
             /\ \E ch \in OpenChanges, v \in StartVolumes : StartNewCandle(ch, v)
    \/ Quiet /\ \E t \in TickDraws, ch \in OpenChanges, v \in StartVolumes :
                   UpdateCurrentCandle(t[1], t[2], ch, v)
    \/ Quiet /\ FinalizeCurrentCandle
    \/ HigherTimeframe
    \/ HigherAppend
    \/ HigherCheck
    \/ FinalizeReturn
    \/ \E tf \in TimeFrames, k \in 1..MaxSavers : SaveRead(tf, k)
    \/ \E tf \in TimeFrames, k \in 1..MaxSavers : SaveCopy(tf, k)
    \/ \E tf \in TimeFrames, k \in 1..MaxSavers : SaveWrite(tf, k)
    \/ \E tf \in TimeFrames, k \in 1..MaxSavers : SaveRename(tf, k)

Spec == Init /\ [][Next]_vars

\* The start of the process on a data directory that a run before it wrote and
\* that has lost files since.
NextBoot ==
    \/ \E d \in InitDrawSeqs : Main(d)
    \/ Restart
    \/ \E tf \in TimeFrames : FileRemoved(tf)

SpecBoot == Init /\ [][NextBoot]_vars

\* Wall-clock moves of a clock that is also set back, in seconds.
ClockSkews == {0 - 60, 300}

\* The store under a wall clock that repeats, advances and goes back between
\* the calls of the ticker loop.
NextClock ==
    \/ \E d \in InitDrawSeqs : Main(d)
    \/ Unseeded
    \/ driver.pc = "idle" /\ Quiet /\ \E dt \in ClockSkews : Tick(dt)
    \/ Quiet /\ currentCandle = <<>>
             /\ \E ch \in {204}, v \in StartVolumes : StartNewCandle(ch, v)
    \/ Quiet /\ FinalizeCurrentCandle
    \/ HigherTimeframe
    \/ HigherAppend
    \/ HigherCheck
    \/ FinalizeReturn
    \/ \E tf \in TimeFrames, k \in 1..MaxSavers : SaveRead(tf, k)
    \/ \E tf \in TimeFrames, k \in 1..MaxSavers : SaveCopy(tf, k)
    \/ \E tf \in TimeFrames, k \in 1..MaxSavers : SaveWrite(tf, k)
    \/ \E tf \in TimeFrames, k \in 1..MaxSavers : SaveRename(tf, k)

SpecClock == Init /\ [][NextClock]_vars

\* The requests explored: a range holding the candles of 00:06 and 00:07, or no
\* bound, and a limit or none.
QueryTimeFrames == {TimeFrame1Min, TimeFrame5Min}

QueryFrom == {0, 360000}

QueryTo == {0, 420000}

QueryLimits == {0, 1}

\* A timeframe string the service has no series for: models.TimeFrame(s) takes
\* any query string.
UnknownTimeFrames == {"2m"}

\* The store serving history requests, one at a time.
NextQuery ==
    \/ \E d \in InitDrawSeqs : Main(d)
    \/ Unseeded
    \/ reply = <<>> /\ currentCandle = <<>>
         /\ \E ch \in OpenChanges, v \in StartVolumes : StartNewCandle(ch, v)
    \/ reply = <<>> /\ currentCandle # <<>> /\ FinalizeCurrentCandle
    \/ HigherTimeframe
    \/ HigherCheck
    \/ FinalizeReturn
    \/ \E tf \in QueryTimeFrames, from \in QueryFrom, to \in QueryTo, limit \in QueryLimits :
          HandleHistoricalData(tf, from, to, limit)
    \/ \E tf \in UnknownTimeFrames, limit \in QueryLimits : HandleHistoricalData(tf, 0, 0, limit)
    \/ Respond

SpecQuery == Init /\ [][NextQuery]_vars

\* The candle life cycle broadcasting to connections that come and go, and a
\* handler goroutine asking for the base series.
NextClients ==
    \/ Unseeded
    \/ currentCandle = <<>> /\ \E ch \in {204}, v \in StartVolumes : StartNewCandle(ch, v)
    \/ currentCandle # <<>> /\ FinalizeCurrentCandle
    \/ HigherTimeframe
    \/ HigherCheck
    \/ FinalizeReturn
    \/ \E c \in Conns : RegisterClient(c)
    \/ \E c \in Conns : PeerGone(c)
    \/ \E c \in Conns : UnregisterClient(c)
    \/ ReaderCall("GetHistoryForTimeFrame", TimeFrame1Min)
    \/ GetHistoryWithCurrent
    \/ ReaderReturn

SpecClients == Init /\ [][NextClients]_vars

\* The steps that carry on a call the driver goroutine is in.
DriverCall ==
    \/ HigherTimeframe
    \/ HigherCheck
    \/ FinalizeReturn

\* The same, with the driver goroutine scheduled whenever it can run: nothing
\* in main's loop (main.go:65-80) waits for anything but the service's calls.
SpecClientsFair == SpecClients /\ WF_vars(DriverCall)

\* The same, with the connections' reader goroutines scheduled as well: a
\* failed ReadMessage is followed by UnregisterClient as soon as it can run
\* (handlers:156-162).
SpecClientsLive ==
    /\ SpecClients
    /\ WF_vars(DriverCall)
    /\ \A c \in Conns : WF_vars(UnregisterClient(c))

\* The connection the completions are broadcast to in SpecSaves.
SaveConns == {1}

\* The steps of the SaveTimeFrame goroutines.
SaverStep ==
    \/ \E tf \in TimeFrames, k \in 1..MaxSavers : SaveRead(tf, k)
    \/ \E tf \in TimeFrames, k \in 1..MaxSavers : SaveCopy(tf, k)
    \/ \E tf \in TimeFrames, k \in 1..MaxSavers : SaveWrite(tf, k)
    \/ \E tf \in TimeFrames, k \in 1..MaxSavers : SaveRename(tf, k)

\* The candle life cycle under a moving clock, with a subscriber that comes and
\* goes away and the save goroutines the completions start.
NextSaves ==
    \/ Unseeded
    \/ driver.pc = "idle" /\ \E dt \in ClockSteps : Tick(dt)
    \/ currentCandle = <<>> /\ \E ch \in {204}, v \in StartVolumes : StartNewCandle(ch, v)
    \/ currentCandle # <<>> /\ FinalizeCurrentCandle
    \/ HigherTimeframe
    \/ HigherAppend
    \/ HigherCheck
    \/ FinalizeReturn
    \/ \E c \in SaveConns : RegisterClient(c)
    \/ \E c \in SaveConns : PeerGone(c)
    \/ SaverStep

\* The same with the driver goroutine and the save goroutines scheduled
\* whenever they can run (the Go scheduler starves no runnable goroutine).
SpecSaves ==
    /\ Init /\ [][NextSaves]_vars
    /\ WF_vars(HigherTimeframe \/ HigherAppend \/ HigherCheck \/ FinalizeReturn)
    /\ WF_vars(SaverStep)

\* The timeframe whose file the persistence runs save and load on demand.
PersistTimeFrames == {TimeFrame5Min}

\* The data directory: saves in flight next to each other, loads, the candle
\* life cycle between them, and a restart of the process before its first candle.
NextPersist ==
    \/ \E d \in InitDrawSeqs : Main(d)
    \/ Unseeded
    \/ Quiet /\ currentCandle = <<>>
         /\ \E ch \in {204}, v \in StartVolumes : StartNewCandle(ch, v)
    \/ Quiet /\ currentCandle # <<>> /\ FinalizeCurrentCandle
    \/ HigherTimeframe
    \/ HigherCheck
    \/ FinalizeReturn
    \/ \E tf \in PersistTimeFrames : SaveTimeFrame(tf)
    \/ \E tf \in TimeFrames, k \in 1..MaxSavers : SaveRead(tf, k)
    \/ \E tf \in TimeFrames, k \in 1..MaxSavers : SaveCopy(tf, k)
    \/ \E tf \in TimeFrames, k \in 1..MaxSavers : SaveWrite(tf, k)
    \/ \E tf \in TimeFrames, k \in 1..MaxSavers : SaveRename(tf, k)
    \/ Quiet /\ \E tf \in PersistTimeFrames : LoadTimeFrame(tf)
    \/ Quiet /\ driver.started = 0 /\ Restart

SpecPersist == Init /\ [][NextPersist]_vars

\* The timeframes saved and loaded one at a time in SpecErrors.
ErrorTimeFrames == {TimeFrame1Min, TimeFrame5Min}

\* Saves and loads that fail: on a store without the series, on a data
\* directory that lost or damaged a file, with two saves of one timeframe in
\* each other's way.
NextErrors ==
    \/ \E d \in InitDrawSeqs : Main(d)
    \/ Unseeded
    \/ Quiet /\ Restart
    \/ \E tf \in ErrorTimeFrames : FileRemoved(tf)
    \/ \E tf \in ErrorTimeFrames : FileDamaged(tf)
    \/ \E tf \in PersistTimeFrames : FileUnlinked(tf)
    \/ Quiet /\ currentCandle = <<>>
         /\ \E ch \in {204}, v \in StartVolumes : StartNewCandle(ch, v)
    \/ \E tf \in PersistTimeFrames : SaveTimeFrame(tf)
    \/ SaverStep
    \/ Quiet /\ \E tf \in ErrorTimeFrames : LoadTimeFrame(tf)
    \/ SaveAllTimeFrames

SpecErrors == Init /\ [][NextErrors]_vars

\* The timeframes connections subscribe to in SpecSubscribe.
SubscribeTimeFrames == {TimeFrame1Min, TimeFrame5Min}

\* The candle life cycle with connections being upgraded and registered.
NextSubscribe ==
    \/ Unseeded
    \/ currentCandle = <<>> /\ \E ch \in {204}, v \in StartVolumes : StartNewCandle(ch, v)
    \/ currentCandle # <<>> /\ FinalizeCurrentCandle
    \/ HigherTimeframe
    \/ HigherCheck
    \/ FinalizeReturn
    \/ \E tf \in SubscribeTimeFrames : ReaderCall("HandleWebsocketSubscribe", tf)
    \/ \E c \in Conns : SubscribeRegister(c)
    \/ SubscribeGreet
    \/ SubscribeWritten
    \/ ReaderReturn

SpecSubscribe == Init /\ [][NextSubscribe]_vars

\* The candle life cycle of the earlier service on an empty store, under a
\* moving clock.
NextLegacy ==
    \/ Unseeded
    \/ driver.pc = "idle" /\ \E dt \in ClockSteps : Tick(dt)
    \/ currentCandle = <<>>
         /\ \E ch \in OpenChanges, v \in StartVolumes : StartNewCandle(ch, v)
    \/ \E t \in TickDraws, ch \in OpenChanges, v \in StartVolumes :
          UpdateCurrentCandle(t[1], t[2], ch, v)
    \/ currentCandle # <<>> /\ LegacyFinalizeCurrentCandle
    \/ LegacyHigherTimeframe
    \/ LegacyHigherCheck
    \/ FinalizeReturn

SpecLegacy == Init /\ [][NextLegacy]_vars

\* The timeframes the handler goroutine asks the history of.
ReaderTimeFrames == {TimeFrame1Min, TimeFrame5Min}

\* The candle life cycle, its update in two writes, and a handler goroutine
\* reading the store.
NextReaders ==
    \/ Unseeded
    \/ currentCandle = <<>> /\ \E ch \in {204}, v \in StartVolumes : StartNewCandle(ch, v)
    \/ \E d \in TickDraws : UpdateValues(d[1])
    \/ \E d \in TickDraws : UpdateVolume(d[2])
    \/ currentCandle # <<>> /\ FinalizeCurrentCandle
    \/ HigherTimeframe
    \/ HigherCheck
    \/ FinalizeReturn
    \/ ReaderCall("GetCurrentCandle", TimeFrame1Min)
    \/ \E tf \in ReaderTimeFrames : ReaderCall("GetHistoryForTimeFrame", tf)
    \/ GetCurrentCandleCheck
    \/ GetCurrentCandleCopy
    \/ GetHistoryWithCurrent
    \/ ReaderReturn

SpecReaders == Init /\ [][NextReaders]_vars

\* NormalizeTimestamp as a function of its own: the timeframe, two timestamps
\* and the process's location are drawn at the start, then the function is
\* applied to both timestamps and to its own result.
NormTimestamps == {0, 3570000, 3900000, 7500000, 90000000}

NormCalls ==
    {[pc |-> "call", loc |-> l, tf |-> tf, x |-> x, y |-> y, nx |-> 0, ny |-> 0, nnx |-> 0] :
        l \in Locations, tf \in TimeFrames, x \in NormTimestamps, y \in NormTimestamps}

InitNormalize ==
    /\ InitStore
    /\ norm \in NormCalls

Normalize ==
    /\ norm.pc = "call"
    /\ norm' = [norm EXCEPT !.pc = "done",
                            !.nx = NormalizeIn(norm.loc, norm.tf, norm.x),
                            !.ny = NormalizeIn(norm.loc, norm.tf, norm.y),
                            !.nnx = NormalizeIn(norm.loc, norm.tf,
                                                NormalizeIn(norm.loc, norm.tf, norm.x))]
    /\ UNCHANGED <<now, reply, reader, timeFrameData, hasSeries, currentCandle, clients, conns,
                   driver, savers, files, events, bcast, hist, frontend>>

NextNormalize == Normalize

SpecNormalize == InitNormalize /\ [][NextNormalize]_vars

\* ------------------------------------------------------------ properties

RECURSIVE SumVolume(_)
SumVolume(f) == IF f = <<>> THEN 0 ELSE Head(f).Volume + SumVolume(Tail(f))

MaxHigh(f) ==
    CHOOSE h \in {f[k].Values[2] : k \in 1..Len(f)} : \A k \in 1..Len(f) : h >= f[k].Values[2]

MinLow(f) ==
    CHOOSE l \in {f[k].Values[3] : k \in 1..Len(f)} : \A k \in 1..Len(f) : l <= f[k].Values[3]

\* The entry of tf that the base candles of hist.folded[tf] went into, <<>> once
\* it is evicted.
FoldedEntry(tf) ==
    LET f == hist.folded[tf]
        i == IF f = <<>> THEN 0
             ELSE IndexOf(timeFrameData[tf], NormalizeTimestamp(tf, f[1].Timestamp))
    IN  IF i = 0 THEN <<>> ELSE <<timeFrameData[tf][i]>>

\* C1: for every derived timeframe, the entry created by updateHigherTimeframes
\* for a bucket that had none, after the base candles of that bucket finalized
\* since (in increasing timestamp order), has the open of the first of them,
\* the close of the last, the largest high, the smallest low and the sum of
\* the volumes.
C1_Aggregation ==
    \A tf \in DerivedTimeFrames :
        FoldedEntry(tf) # <<>> =>
            LET f == hist.folded[tf]
                e == FoldedEntry(tf)[1]
            IN  /\ \A k \in 1..(Len(f) - 1) : f[k].Timestamp < f[k + 1].Timestamp
                /\ e.Values[1] = f[1].Values[1]
                /\ e.Values[4] = Last(f).Values[4]
                /\ e.Values[2] = MaxHigh(f)
                /\ e.Values[3] = MinLow(f)
                /\ e.Volume = SumVolume(f)

\* Three base candles of one bucket went into an entry, the high and the low
\* coming from different candles than the open and the close.
C1_Witness ==
    \E tf \in DerivedTimeFrames :
        /\ FoldedEntry(tf) # <<>>
        /\ Len(hist.folded[tf]) = 3
        /\ MaxHigh(hist.folded[tf]) > hist.folded[tf][1].Values[2]
        /\ MinLow(hist.folded[tf]) < Last(hist.folded[tf]).Values[3]
        /\ hist.folded[tf][1].Values[4] # Last(hist.folded[tf]).Values[4]

Timestamps(s) == [k \in 1..Len(s) |-> s[k].Timestamp]

C4_CompleteImmutable ==
    [][\A tf \in DerivedTimeFrames :
         \A i \in 1..Len(timeFrameData[tf]) :
            \A j \in 1..Len(timeFrameData'[tf]) :
               (/\ timeFrameData[tf][i].IsComplete
                /\ timeFrameData'[tf][j].Timestamp = timeFrameData[tf][i].Timestamp)
               => timeFrameData'[tf][j] = timeFrameData[tf][i]]_vars

\* C5: every derived series has at most one candle that is not complete, and
\* that candle is its last.
C5_OneOpenCandle ==
    \A tf \in DerivedTimeFrames :
        \A i \in 1..(Len(timeFrameData[tf]) - 1) : timeFrameData[tf][i].IsComplete

\* A derived series of two candles or more whose last is not complete, right
\* after a rollover finalized the one before it.
C5_Witness ==
    \E tf \in DerivedTimeFrames :
        /\ Len(timeFrameData[tf]) >= 2
        /\ ~Last(timeFrameData[tf]).IsComplete
        /\ driver.pc = "higher"
        /\ Len(events) >= 3
        /\ events[Len(events)].Type = "new"
        /\ events[Len(events)].TimeFrame = tf
        /\ events[Len(events) - 1].TimeFrame = tf

\* C6: in every series the timestamps are strictly increasing.
C6_Increasing ==
    \A tf \in TimeFrames :
        \A i \in 1..(Len(timeFrameData[tf]) - 1) :
            timeFrameData[tf][i].Timestamp < timeFrameData[tf][i + 1].Timestamp

WellFormed(c) ==
    /\ c.Values[3] <= Min(Min(c.Values[1], c.Values[4]), c.Values[2])
    /\ c.Values[2] >= Max(Max(c.Values[1], c.Values[4]), c.Values[3])

\* C7: every stored candle of every series, and the current candle, has its low
\* at or below open, close and high, and its high at or above open, close and
\* low.
C7_HighLow ==
    /\ \A tf \in TimeFrames :
          \A i \in 1..Len(timeFrameData[tf]) : WellFormed(timeFrameData[tf][i])
    /\ currentCandle # <<>> => WellFormed(currentCandle[1])

\* A current candle that a tick has moved above its open, next to a derived
\* candle whose high and low come from folding.
C7_Witness ==
    /\ currentCandle # <<>>
    /\ currentCandle[1].Values[2] > currentCandle[1].Values[1]
    /\ \E tf \in DerivedTimeFrames :
          /\ Len(hist.folded[tf]) >= 2
          /\ FoldedEntry(tf) # <<>>
          /\ FoldedEntry(tf)[1].Values[3] < FoldedEntry(tf)[1].Values[1]

\* C3: when a write of a broadcast fails while another registered connection is
\* writable, that connection still gets the message, and once the broadcast has
\* finished the failing connection is closed and out of the registry.
C3_FailureIsolated ==
    (bcast.failed # {} /\ bcast.writable # {}) =>
        /\ bcast.writable \subseteq bcast.got
        /\ bcast.done => \A c \in bcast.failed : conns[c] = "closed" /\ c \notin clients

\* C8: a history request with from > 0 and to > 0 is answered with no candle
\* whose timestamp is outside [from, to], the base timeframe with a current
\* candle included.
C8_RangeRespected ==
    (reply # <<>> /\ reply[1].from > 0 /\ reply[1].to > 0) =>
        \A k \in 1..Len(reply[1].history) :
            /\ reply[1].history[k].Timestamp >= reply[1].from
            /\ reply[1].history[k].Timestamp <= reply[1].to

\* C9: a LoadTimeFrame that follows a SaveTimeFrame of the same timeframe, the
\* series being the one the file was written from, succeeds and leaves the
\* series equal to what it was.
C9_RoundTrip ==
    [][\A tf \in TimeFrames :
         (/\ hist'.op # hist.op
          /\ hist'.op.name = "LoadTimeFrame"
          /\ hist'.op.tf = tf
          /\ hist.op.name = "SaveTimeFrame"
          /\ hist.op.tf = tf
          /\ hist.op.err = "none"
          /\ files[tf].target = FileOf(SaveBytes(timeFrameData[tf])))
         => /\ hist'.op.err = "none"
            /\ timeFrameData'[tf] = timeFrameData[tf]]_vars

\* A load right after a save brought back a series whose last candle is not
\* complete (its "isComplete" key is left out of the file).
C9_Witness ==
    \E tf \in TimeFrames :
        /\ hist.op.name = "LoadTimeFrame"
        /\ hist.op.tf = tf
        /\ hist.op.err = "none"
        /\ hist.op.prev = "SaveTimeFrame"
        /\ Len(timeFrameData[tf]) >= 1
        /\ ~Last(timeFrameData[tf]).IsComplete
        /\ files[tf].target = FileOf(SaveBytes(timeFrameData[tf]))

\* C10: the target file of a timeframe, when it exists, holds one complete
\* save: it is never empty or torn.
C10_TargetWhole ==
    \A tf \in TimeFrames : files[tf].target.exists => files[tf].target.ok


\* The largest move of an open away from the last close, in hundredths: the
\* draw (rand.Float64() - 0.5) * 1.0 lies in [-0.5, 0.5).
OpenBound == 50

\* The store right after StartNewCandle returned: its "new" message is the only
\* one recorded and the candle it installed is still untouched.
JustStarted ==
    /\ currentCandle # <<>>
    /\ Len(events) = 1
    /\ events[1].Type = "new"
    /\ events[1].TimeFrame = TimeFrame1Min
    /\ events[1].Candle = currentCandle[1]

\* The price StartNewCandle starts from: the close of the last base candle, or
\* the default price when the base series is empty or absent.
ReferenceClose ==
    IF TimeFrame1Min \in hasSeries /\ Len(timeFrameData[TimeFrame1Min]) > 0
    THEN Last(timeFrameData[TimeFrame1Min]).Values[4]
    ELSE DefaultPrice

\* C11: the candle installed by StartNewCandle has open = high = low = close,
\* is not complete, and its open lies within 0.5 of the last base-series close,
\* or of the default price 200.00 when the base series is empty.
C11_StartInstalls ==
    JustStarted =>
        LET c == currentCandle[1]
        IN  /\ c.Values[2] = c.Values[1]
            /\ c.Values[3] = c.Values[1]
            /\ c.Values[4] = c.Values[1]
            /\ c.IsComplete = FALSE
            /\ c.Values[1] - ReferenceClose <= OpenBound
            /\ ReferenceClose - c.Values[1] <= OpenBound

\* A candle started on an empty base series at the far end of the bound.
C11_Witness ==
    /\ JustStarted
    /\ Len(timeFrameData[TimeFrame1Min]) = 0
    /\ currentCandle[1].Values[1] = DefaultPrice - OpenBound

\* A candle started from the close of a stored base candle, at the far end of
\* the bound.
C11_WitnessSeeded ==
    /\ JustStarted
    /\ Len(timeFrameData[TimeFrame1Min]) > 0
    /\ currentCandle[1].Values[1] = Last(timeFrameData[TimeFrame1Min]).Values[4] - OpenBound


\* A step of UpdateCurrentCandle on an existing current candle: the only step
\* that counts a tick.
UpdateStep ==
    /\ currentCandle # <<>>
    /\ driver'.ticks = driver.ticks + 1

FirstFinalizeDone ==
    /\ driver.pc = "finish"
    /\ \A tf \in TimeFrames : hist.count[tf] = 1

\* Some message of the running call announces candle c of tf as "new".
AnnouncedNew(tf, c) ==
    \E k \in 1..Len(events) :
        events[k] = UpdateMessage("new", c, tf)

\* C13: FinalizeCurrentCandle on an empty store leaves a base series of one
\* complete candle and, in each of the five derived series, exactly one candle
\* with the OHLC and volume of that base candle, not complete, announced by a
\* "new" message.
C13_FirstFinalize ==
    FirstFinalizeDone =>
        LET base == timeFrameData[TimeFrame1Min]
        IN  /\ Len(base) = 1
            /\ base[1].IsComplete = TRUE
            /\ \A tf \in DerivedTimeFrames :
                  /\ tf \in hasSeries
                  /\ Len(timeFrameData[tf]) = 1
                  /\ timeFrameData[tf][1].Values = base[1].Values
                  /\ timeFrameData[tf][1].Volume = base[1].Volume
                  /\ timeFrameData[tf][1].IsComplete = FALSE
                  /\ AnnouncedNew(tf, timeFrameData[tf][1])

\* The first finalize of a candle that an update had widened and given volume.
C13_Witness ==
    /\ FirstFinalizeDone
    /\ Len(timeFrameData[TimeFrame1Day]) = 1
    /\ timeFrameData[TimeFrame1Day][1].Values[2] > timeFrameData[TimeFrame1Day][1].Values[1]
    /\ timeFrameData[TimeFrame1Day][1].Volume > 0
    /\ Len(events) = 6


\* C14: for each of the six timeframes NormalizeTimestamp is idempotent and
\* monotonic: normalizing its result changes nothing, and x <= y gives
\* NormalizeTimestamp(x) <= NormalizeTimestamp(y).
C14_IdempotentMonotonic ==
    norm.pc = "done" =>
        /\ norm.nnx = norm.nx
        /\ norm.x <= norm.y => norm.nx <= norm.ny

\* In a location without transitions the function is the truncation used for
\* the store, and is idempotent, monotonic and never later than its argument.
NormalizeFixedOffset ==
    (norm.pc = "done" /\ norm.loc.before = norm.loc.after) =>
        /\ norm.nx = NormalizeTimestamp(norm.tf, norm.x)
        /\ norm.nnx = norm.nx
        /\ norm.nx <= norm.x
        /\ norm.x <= norm.y => norm.nx <= norm.ny

\* Idempotence alone, in every location.
NormalizeIdempotent == norm.pc = "done" => norm.nnx = norm.nx


\* C15: the mutators write the series map and the current candle holding
\* timeFrameDataLock exclusively and the readers GetHistoryForTimeFrame and
\* GetCurrentCandle hold it at least shared, so that no reader copies the
\* current candle while a mutator is between two writes of it.
C15_NoReadDuringWrite ==
    reader.pc = "done" => reader.during = FALSE

\* C16: a subscriber write pending inside broadcastToClients keeps no thread
\* waiting for timeFrameDataLock: a handler that has called
\* GetHistoryForTimeFrame is not held up by a driver stuck in a broadcast.
C16_ReadersNotHeldUp ==
    (reader.pc = "called" /\ reader.op = "GetHistoryForTimeFrame") =>
        ~(HoldsExclusive /\ driver.pc = "blocked")


\* C17: whatever subscriber writes fail and whichever subscribers disconnect,
\* every call of StartNewCandle, UpdateCurrentCandle and FinalizeCurrentCandle
\* made by the driver returns: a driver inside a call is back in its loop later.
C17_CallsReturn ==
    (driver.pc \notin {"boot", "idle"}) ~> (driver.pc = "idle")


\* The messages recorded are those of a FinalizeCurrentCandle call: the first is
\* the base "update" carrying the complete candle.
FinalizeEvents ==
    /\ Len(events) >= 1
    /\ events[1].TimeFrame = TimeFrame1Min
    /\ events[1].Type = "update"
    /\ events[1].Candle.IsComplete

\* The bucket of timeframe tf the finalized candle falls into.
FinalBucket(tf) == NormalizeTimestamp(tf, events[1].Candle.Timestamp)

\* Message k concerns the bucket of the finalized candle.
OfBucket(k) == events[k].Candle.Timestamp = FinalBucket(events[k].TimeFrame)

\* Message k announces a completion: an "update" carrying a complete candle.
Completion(k) == events[k].Type = "update" /\ events[k].Candle.IsComplete

\* Only the base "update" is a base message; every derived message follows it.
BaseFirst == \A k \in 2..Len(events) : events[k].TimeFrame \in DerivedTimeFrames

\* C18 (as stated): within one FinalizeCurrentCandle call the base "update" comes
\* before every derived message, and every completion "update" of a derived
\* timeframe, other than the first message for the finalized candle's bucket,
\* comes after a "new"/"update" message for that bucket.
C18_BucketBeforeCompletion ==
    FinalizeEvents =>
        /\ BaseFirst
        /\ \A j \in 2..Len(events) :
              (Completion(j)
                 /\ ~(OfBucket(j) /\ \A i \in 2..(j - 1) :
                                        events[i].TimeFrame # events[j].TimeFrame))
              => \E i \in 2..(j - 1) :
                    /\ events[i].TimeFrame = events[j].TimeFrame
                    /\ OfBucket(i)

\* C18 (amended): within one FinalizeCurrentCandle call the base "update" comes
\* before every derived message; a derived timeframe gets at most two messages,
\* one after the other: either the completion "update" of its previous bucket
\* and then the "new" of the finalized candle's bucket, or the "update" of that
\* bucket and then its completion "update".
C18_EventOrder ==
    FinalizeEvents =>
        /\ BaseFirst
        /\ \A k \in 2..Len(events) : ~OfBucket(k) => Completion(k)
        /\ \A i \in 2..Len(events) : \A j \in (i + 1)..Len(events) :
              events[i].TimeFrame = events[j].TimeFrame =>
                  /\ j = i + 1
                  /\ OfBucket(j)
                  /\ IF OfBucket(i)
                     THEN /\ events[i].Type = "update"
                          /\ ~events[i].Candle.IsComplete
                          /\ Completion(j)
                     ELSE /\ Completion(i)
                          /\ events[j].Type = "new"

\* A call in which a derived timeframe rolled over: the completion of the
\* previous bucket, then the "new" of the finalized candle's bucket.
C18_Witness ==
    /\ FinalizeEvents
    /\ driver.pc = "finish"
    /\ \E i \in 2..(Len(events) - 1) :
          /\ events[i].TimeFrame = events[i + 1].TimeFrame
          /\ Completion(i)
          /\ ~OfBucket(i)
          /\ events[i + 1].Type = "new"

\* A call in which the bucket's "update" was followed by its completion.
C18_WitnessWallClock ==
    /\ FinalizeEvents
    /\ \E i \in 2..(Len(events) - 1) :
          /\ events[i].TimeFrame = events[i + 1].TimeFrame
          /\ OfBucket(i)
          /\ ~events[i].Candle.IsComplete
          /\ Completion(i + 1)


\* C19: the timestamp of a candle created by StartNewCandle is a one-minute
\* boundary strictly after the timestamp of the last base candle, also when the
\* wall clock repeats or goes back; hence the base series has strictly
\* increasing timestamps.
C19_FreshTimestamp ==
    LET base == timeFrameData[TimeFrame1Min]
    IN  /\ (currentCandle # <<>> /\ driver.pc = "idle") =>
              /\ currentCandle[1].Timestamp % MsPerMinute = 0
              /\ Len(base) > 0 => currentCandle[1].Timestamp > Last(base).Timestamp
        /\ \A i \in 1..(Len(base) - 1) : base[i].Timestamp < base[i + 1].Timestamp

\* A candle started after the wall clock went back behind the last base candle:
\* its timestamp is one minute after that candle's, ahead of the clock.
C19_Witness ==
    /\ JustStarted
    /\ driver.pc = "idle"
    /\ Len(timeFrameData[TimeFrame1Min]) > 0
    /\ now * 1000 < Last(timeFrameData[TimeFrame1Min]).Timestamp
    /\ currentCandle[1].Timestamp = Last(timeFrameData[TimeFrame1Min]).Timestamp + MsPerMinute


\* The timeframes whose data file is there and parses.
Loadable == {tf \in TimeFrames : files[tf].target.exists /\ files[tf].target.ok}

\* A step of main from the start of the process to its candle loop.
BootStep == driver.pc = "boot" /\ driver'.pc = "idle"

\* C20: LoadAllTimeFrames tries all six timeframes whichever files are missing:
\* with missing files only, every timeframe whose file is there gets the series
\* of its file and the load succeeds when there is at least one; with no file
\* loaded it reports failure (main then generates and saves all six series).
C20_LoadsWhatIsThere ==
    [][(BootStep /\ \A tf \in TimeFrames : files[tf].target.exists => files[tf].target.ok) =>
          IF Loadable = {}
          THEN /\ hasSeries' = TimeFrames
               /\ \A tf \in TimeFrames : files'[tf].target.exists
          ELSE /\ files' = files
               /\ hasSeries' = Loadable
               /\ \A tf \in Loadable :
                     timeFrameData'[tf] = KeepRecent(Unmarshal(files[tf].target.data))]_vars

\* A start that found the files of the base and the 15m series missing and
\* loaded the four others.
C20_Witness ==
    /\ driver.pc = "idle"
    /\ driver.runs = 1
    /\ hasSeries = TimeFrames \ {TimeFrame1Min, TimeFrame15Min}
    /\ \A tf \in hasSeries : Len(timeFrameData[tf]) > 0
    /\ ~files[TimeFrame1Min].target.exists

\* The process about to start on a data directory that has lost every file.
C20_WitnessEmptied ==
    /\ driver.pc = "boot"
    /\ driver.runs = 1
    /\ Loadable = {}


\* Open, high, low and close of c are at or above the floor of 0.01.
Positive(c) == \A k \in 1..4 : c.Values[k] >= MinPrice

\* C21: open, high, low and close of the current candle and of every candle of
\* every series are strictly positive, the candles generated by Initialize and
\* the derived candles grouped from them included.
C21_PricesPositive ==
    /\ currentCandle # <<>> => Positive(currentCandle[1])
    /\ \A tf \in TimeFrames :
          \A k \in 1..Len(timeFrameData[tf]) : Positive(timeFrameData[tf][k])


\* A step of the driver goroutine inside the candle loop.
DriverStep == driver.pc # "boot" /\ driver' # driver

\* C22: no SaveTimeFrame started from FinalizeCurrentCandle or
\* updateHigherTimeframes is run by the driver itself: no step of the driver in
\* the candle loop writes a data file, the writes are left to save goroutines.
C22_DriverWritesNoFile ==
    [][DriverStep => files' = files]_vars


\* What the handler finds in the slice it was returned: its own array holds
\* what was copied; the store's array holds, for every candle still stored,
\* what the store has made of it since.
ReaderView ==
    IF reader.backing = "own" THEN reader.got
    ELSE [k \in 1..Len(reader.got) |->
            LET j == IndexOf(timeFrameData[reader.tf], reader.got[k].Timestamp)
            IN  IF j > 0 THEN timeFrameData[reader.tf][j]
                ELSE IF currentCandle # <<>>
                        /\ currentCandle[1].Timestamp = reader.got[k].Timestamp
                     THEN currentCandle[1]
                     ELSE reader.got[k]]

BucketOver(tf) ==
    now > NormalizeTimestamp(tf, driver.final.Timestamp) \div 1000 + GetDuration(tf)

\* C24: when updateHigherTimeframes has gone through a finalized base candle,
\* every derived bucket of it whose end the wall clock has passed is stored
\* complete and a final "update" carrying the complete candle has been emitted,
\* whether the entry was there before or was created by this call.
C24_OverdueCompleted ==
    driver.pc = "finish" =>
        \A tf \in DerivedTimeFrames :
            BucketOver(tf) =>
                LET bucket == NormalizeTimestamp(tf, driver.final.Timestamp)
                    k == IndexOf(timeFrameData[tf], bucket)
                IN  /\ k > 0
                    /\ timeFrameData[tf][k].IsComplete
                    /\ \E e \in 2..Len(events) :
                          /\ events[e].TimeFrame = tf
                          /\ events[e].Type = "update"
                          /\ events[e].Candle.Timestamp = bucket
                          /\ events[e].Candle.IsComplete

\* The same for the entries that were there before the call: the ones no "new"
\* message of the call announces.
OverdueCompletedExisting ==
    driver.pc = "finish" =>
        \A tf \in DerivedTimeFrames :
            (BucketOver(tf) /\ \A e \in 2..Len(events) :
                                   ~(events[e].TimeFrame = tf /\ events[e].Type = "new")) =>
                LET bucket == NormalizeTimestamp(tf, driver.final.Timestamp)
                    k == IndexOf(timeFrameData[tf], bucket)
                IN  /\ k > 0
                    /\ timeFrameData[tf][k].IsComplete
                    /\ \E e \in 2..Len(events) :
                          /\ events[e].TimeFrame = tf
                          /\ events[e].Type = "update"
                          /\ events[e].Candle.Timestamp = bucket
                          /\ events[e].Candle.IsComplete


\* No stored candle and no current candle has a negative volume.
VolumesNonNegative ==
    /\ currentCandle # <<>> => currentCandle[1].Volume >= 0
    /\ \A tf \in TimeFrames :
          \A k \in 1..Len(timeFrameData[tf]) : timeFrameData[tf][k].Volume >= 0

\* C25: every candle's volume is non-negative, and the volume of an open candle
\* (the current candle, or a derived entry that is not complete) does not
\* decrease from one state to the next.
C25_VolumeGrows ==
    [][/\ VolumesNonNegative'
       /\ (currentCandle # <<>> /\ currentCandle' # <<>>
             /\ currentCandle'[1].Timestamp = currentCandle[1].Timestamp)
            => currentCandle'[1].Volume >= currentCandle[1].Volume
       /\ \A tf \in DerivedTimeFrames :
             \A k \in 1..Len(timeFrameData[tf]) :
                 ~timeFrameData[tf][k].IsComplete =>
                     LET j == IndexOf(timeFrameData'[tf], timeFrameData[tf][k].Timestamp)
                     IN  j > 0 => timeFrameData'[tf][j].Volume >= timeFrameData[tf][k].Volume]_vars

\* An open 5m entry that has taken the volume of two base candles, next to a
\* current candle whose volume an update has raised.
C25_Witness ==
    /\ currentCandle # <<>>
    /\ currentCandle[1].Volume > 35
    /\ Len(timeFrameData[TimeFrame5Min]) > 0
    /\ ~Last(timeFrameData[TimeFrame5Min]).IsComplete
    /\ Last(timeFrameData[TimeFrame5Min]).Volume >= 70


\* The candles of cs that fall into bucket b of tf, in the order of cs.
InBucket(tf, cs, b) ==
    SelectSeq(cs, LAMBDA c : NormalizeTimestamp(tf, c.Timestamp) = b)

\* The buckets of tf that the candles of cs fall into, and the maxCandles most
\* recent of them.
BucketsOf(tf, cs) == {NormalizeTimestamp(tf, cs[k].Timestamp) : k \in 1..Len(cs)}

RecentBuckets(tf, cs) ==
    {b \in BucketsOf(tf, cs) :
        Cardinality({c \in BucketsOf(tf, cs) : c > b}) < maxCandles}

\* Candle e is the aggregate of the members m of its bucket: first open, last
\* close, extreme high and low, summed volume, complete.
AggregateOf(e, m) ==
    /\ e.Values[1] = m[1].Values[1]
    /\ e.Values[4] = Last(m).Values[4]
    /\ \A k \in 1..Len(m) : e.Values[2] >= m[k].Values[2] /\ e.Values[3] <= m[k].Values[3]
    /\ \E k \in 1..Len(m) : e.Values[2] = m[k].Values[2]
    /\ \E k \in 1..Len(m) : e.Values[3] = m[k].Values[3]
    /\ e.Volume = SumVolume(m)
    /\ e.IsComplete

\* Series s holds one candle for each of the most recent buckets of the base
\* candles cs, each the aggregate of its bucket.
GroupedFrom(tf, s, cs) ==
    /\ Len(s) = Cardinality(RecentBuckets(tf, cs))
    /\ {s[k].Timestamp : k \in 1..Len(s)} = RecentBuckets(tf, cs)
    /\ \A k \in 1..Len(s) : AggregateOf(s[k], InBucket(tf, cs, s[k].Timestamp))

\* main's step through Initialize: nothing loadable was found.
InitializeStep == driver.pc = "boot" /\ driver'.pc = "idle" /\ hasSeries' # hasSeries /\ ~LoadAllOk

\* C26: after Initialize each derived series holds exactly one candle per
\* bucket of the base candles (of the maxCandles most recent buckets), with the
\* open of the bucket's first base candle, the close of its last, the extreme
\* high and low, the summed volume, and marked complete.
C26_InitializeGroups ==
    [][InitializeStep =>
         \A tf \in DerivedTimeFrames :
             GroupedFrom(tf, timeFrameData'[tf], timeFrameData'[TimeFrame1Min])]_vars

\* Initialize has run and a 5m bucket has taken two base candles whose closes
\* and lows differ, next to an older bucket.
C26_Witness ==
    /\ driver.pc = "idle" /\ driver.started = 0 /\ hasSeries = TimeFrames
    /\ Len(timeFrameData[TimeFrame1Min]) = maxCandles
    /\ Len(timeFrameData[TimeFrame5Min]) = 2
    /\ \E k \in 1..2 :
          LET m == InBucket(TimeFrame5Min, timeFrameData[TimeFrame1Min],
                            timeFrameData[TimeFrame5Min][k].Timestamp)
          IN  /\ Len(m) = 2
              /\ m[1].Values[4] # m[2].Values[4]
              /\ timeFrameData[TimeFrame5Min][k].Values[4] = m[2].Values[4]
              /\ timeFrameData[TimeFrame5Min][k].Volume = m[1].Volume + m[2].Volume


\* FinalizeCurrentCandle has taken a current candle and goes on to the derived
\* timeframes; and its return.
FinalizeTaken == driver.pc = "idle" /\ currentCandle # <<>> /\ driver'.pc = "higher"

FinalizeReturns == driver.pc = "finish" /\ driver'.pc = "idle"

\* C27: FinalizeCurrentCandle with a current candle appends that candle, marked
\* complete and otherwise as it was, as the last element of the base series,
\* emits a base "update" carrying the complete candle, and has emptied the
\* current-candle slot when it returns.
C27_FinalizeAppends ==
    [][/\ FinalizeTaken =>
            LET c == currentCandle[1]
                done == [Timestamp |-> c.Timestamp, Values |-> c.Values,
                         IsComplete |-> TRUE, Volume |-> c.Volume]
                before == timeFrameData[TimeFrame1Min]
                after == timeFrameData'[TimeFrame1Min]
            IN  /\ Last(after) = done
                /\ Len(after) = Min(Len(before) + 1, maxCandles)
                /\ \A k \in 1..(Len(after) - 1) :
                      after[k] = before[k + Len(before) + 1 - Len(after)]
                /\ events' = <<UpdateMessage("update", done, TimeFrame1Min)>>
       /\ FinalizeReturns =>
            /\ currentCandle' = <<>>
            /\ timeFrameData' = timeFrameData
            /\ Last(timeFrameData'[TimeFrame1Min]) = driver.final
            /\ driver.final.IsComplete
            /\ events'[1] = UpdateMessage("update", driver.final, TimeFrame1Min)]_vars

\* FinalizeCurrentCandle has returned after appending a candle that an update
\* had widened, to a base series that was full before.
C27_Witness ==
    /\ driver.pc = "idle" /\ currentCandle = <<>>
    /\ hist.count[TimeFrame1Min] > maxCandles
    /\ Len(events) > 0
    /\ events[1].Type = "update" /\ events[1].TimeFrame = TimeFrame1Min
    /\ events[1].Candle = Last(timeFrameData[TimeFrame1Min])
    /\ events[1].Candle.IsComplete
    /\ events[1].Candle.Values[2] > events[1].Candle.Values[3]


\* A step of the idle driver that neither starts a candle nor moves the clock
\* while there is no current candle and no save in flight: a call of
\* FinalizeCurrentCandle that finds nothing to finalize.
FinalizeOnNothing ==
    /\ driver.pc = "idle" /\ Quiet
    /\ currentCandle = <<>> /\ currentCandle' = <<>>
    /\ now' = now

\* C28: FinalizeCurrentCandle with no current candle is a no-op: every series,
\* the current-candle slot, the subscriber registry and the files are
\* unchanged, and the call emits no event.
C28_FinalizeNoOp ==
    [][FinalizeOnNothing =>
          /\ UNCHANGED <<timeFrameData, hasSeries, currentCandle, clients, conns, files,
                         savers, bcast, driver, hist>>
          /\ events' = <<>>]_vars

\* FinalizeCurrentCandle has been called again after it had finalized a candle
\* and returned: nothing of the first call's messages is left, the series still
\* end with that candle.
C28_Witness ==
    /\ driver.pc = "idle" /\ currentCandle = <<>>
    /\ driver.started > 0
    /\ events = <<>>
    /\ Len(timeFrameData[TimeFrame1Min]) > 0
    /\ bcast.msg.Type = "update"


\* A step of the idle driver that fills the empty current-candle slot:
\* StartNewCandle, or UpdateCurrentCandle finding no candle.
SlotFilled == driver.pc = "idle" /\ currentCandle = <<>> /\ currentCandle' # <<>>

\* The timestamp StartNewCandle gives its candle in the current state.
StartTimestamp ==
    LET normalized == NormalizeTimestamp(TimeFrame1Min, now * 1000)
    IN  IF TimeFrame1Min \in hasSeries /\ Len(timeFrameData[TimeFrame1Min]) > 0
           /\ normalized <= Last(timeFrameData[TimeFrame1Min]).Timestamp
        THEN Last(timeFrameData[TimeFrame1Min]).Timestamp + MsPerMinute
        ELSE normalized

\* C29: UpdateCurrentCandle with no current candle does what StartNewCandle
\* does: it leaves a current candle with open = high = low = close, not
\* complete, with the volume StartNewCandle draws, announced by one "new"
\* message and no "update"; no tick is applied to it.
C29_UpdateStarts ==
    [][SlotFilled =>
          LET c == currentCandle'[1]
          IN  /\ c.Values = <<c.Values[1], c.Values[1], c.Values[1], c.Values[1]>>
              /\ ~c.IsComplete
              /\ c.Timestamp = StartTimestamp
              /\ \E ch \in OpenChanges :
                    LET moved == Round(ReferenceClose * 10 + ch)
                    IN  c.Values[1] = IF moved < MinPrice THEN MinPrice ELSE moved
              /\ c.Volume \in StartVolumes
              /\ events' = <<UpdateMessage("new", c, TimeFrame1Min)>>
              /\ driver'.ticks = 0
              /\ UNCHANGED <<timeFrameData, hasSeries, files>>]_vars

\* A candle started after an earlier one was finalized, its slot found empty,
\* still flat and announced as new.
C29_Witness ==
    /\ JustStarted
    /\ driver.started > 1
    /\ driver.ticks = 0
    /\ currentCandle[1].Values[2] = currentCandle[1].Values[3]
    /\ currentCandle[1].Values[1] = Last(timeFrameData[TimeFrame1Min]).Values[4] + 20


\* The answer the history call is to give in the current state: the most recent
\* min(limit, n) of the n candles of the series within the range when limit > 0,
\* all of them otherwise, then the current candle for the base timeframe.
ExpectedHistory(timeFrame, from, to, limit) ==
    LET passing == SelectSeq(IF timeFrame \in TimeFrames THEN timeFrameData[timeFrame]
                             ELSE <<>>,
                             LAMBDA c : /\ (from <= 0 \/ c.Timestamp >= from)
                                        /\ (to <= 0 \/ c.Timestamp <= to))
        n == Len(passing)
        kept == IF limit > 0 THEN SubSeq(passing, n - Min(limit, n) + 1, n) ELSE passing
    IN  IF timeFrame = TimeFrame1Min /\ currentCandle # <<>>
        THEN Append(kept, currentCandle[1])
        ELSE kept

\* A history call returns.
HistoryReturned == reply = <<>> /\ reply' # <<>>

\* C30: GetHistoryForTimeFrame returns, with limit > 0, the most recent
\* min(limit, n) of the n series candles within the range, in series order, and
\* with limit <= 0 all of them, followed by the current candle when the
\* timeframe is the base one and a current candle exists.
C30_LimitedHistory ==
    [][HistoryReturned =>
          reply'[1].history = ExpectedHistory(reply'[1].timeFrame, reply'[1].from,
                                              reply'[1].to, reply'[1].limit)]_vars

\* The same for the timeframes that have an entry in the store.
LimitedHistoryOfStored ==
    [][(HistoryReturned /\ reply'[1].timeFrame \in hasSeries) =>
          reply'[1].history = ExpectedHistory(reply'[1].timeFrame, reply'[1].from,
                                              reply'[1].to, reply'[1].limit)]_vars

\* A limit of one has cut a range of two base candles down to the later one,
\* and the current candle follows it.
LimitedHistoryReached ==
    /\ reply # <<>>
    /\ reply[1].timeFrame = TimeFrame1Min /\ reply[1].limit = 1
    /\ reply[1].from > 0 /\ reply[1].to > 0
    /\ Len(reply[1].history) = 2
    /\ reply[1].history[1].Timestamp = reply[1].to
    /\ reply[1].history[2].Timestamp > reply[1].to


\* C31: GetHistoryForTimeFrame for a timeframe without a series in the store
\* (never seeded or loaded, or a string that names no timeframe) returns the
\* empty sequence, and the call leaves the store unchanged.
C31_EmptyForMissing ==
    [][(HistoryReturned /\ reply'[1].timeFrame \notin hasSeries) =>
          /\ reply'[1].history = <<>>
          /\ UNCHANGED <<timeFrameData, hasSeries, currentCandle, clients, files, driver>>]_vars

\* The base timeframe asked for before anything was seeded, with a current
\* candle in the slot.
C31_Witness ==
    /\ reply # <<>>
    /\ reply[1].timeFrame = TimeFrame1Min
    /\ hasSeries = {}
    /\ currentCandle # <<>>
    /\ reply[1].history = <<>>

\* A string that names no timeframe asked for on a seeded store.
C31_WitnessUnknown ==
    /\ reply # <<>>
    /\ reply[1].timeFrame \notin TimeFrames
    /\ hasSeries = TimeFrames
    /\ reply[1].history = <<>>


\* updateHigherTimeframes has just marked a candle of tf complete: by rollover
\* (the completed candle is not of the bucket of the base candle at hand, and
\* the call has not gone past its announcement), or by the wall-clock check (the
\* completion follows the update of the same candle, then still open).
MarkedComplete(tf) ==
    /\ events # <<>>
    /\ LET m == Last(events)
       IN  /\ m.Type = "update" /\ m.TimeFrame = tf /\ m.Candle.IsComplete
           /\ \/ /\ driver.pc \in {"append", "blocked"}
                 /\ m.Candle.Timestamp # NormalizeTimestamp(tf, driver.final.Timestamp)
              \/ /\ Len(events) >= 2
                 /\ events[Len(events) - 1].Type = "update"
                 /\ events[Len(events) - 1].TimeFrame = tf
                 /\ events[Len(events) - 1].Candle.Timestamp = m.Candle.Timestamp
                 /\ ~events[Len(events) - 1].Candle.IsComplete

\* A SaveTimeFrame of tf has run to its end.
SaveExecuted(tf) == hist.op.name = "SaveTimeFrame" /\ hist.op.tf = tf

\* C32: whenever updateHigherTimeframes marks a derived candle complete, by
\* rollover or by the wall-clock check, a SaveTimeFrame of that timeframe is
\* started and, the goroutines being scheduled fairly, eventually executes.
C32_CompletionSaved ==
    \A tf \in DerivedTimeFrames : MarkedComplete(tf) ~> SaveExecuted(tf)

\* The same as long as no subscriber is registered.
CompletionSavedUnobserved ==
    [](clients = {}) => \A tf \in DerivedTimeFrames : MarkedComplete(tf) ~> SaveExecuted(tf)

\* Completions of both kinds are reached.
MarkedByRollover ==
    /\ driver.pc = "append" /\ MarkedComplete(TimeFrame5Min)

MarkedByWallClock ==
    /\ driver.pc # "append" /\ driver.pc # "blocked" /\ MarkedComplete(TimeFrame5Min)


\* A SaveTimeFrame, a LoadTimeFrame or a SaveAllTimeFrames returns.
Returned(name) == hist'.op # hist.op /\ hist'.op.name = name

C33_WitnessParse ==
    /\ hist.op.name = "LoadTimeFrame" /\ hist.op.err = "parse"
    /\ currentCandle # <<>>

C33_WitnessMissing == hist.op.name = "LoadTimeFrame" /\ hist.op.err = "missing"

C33_WitnessRename == hist.op.name = "SaveTimeFrame" /\ hist.op.err = "rename"

C33_WitnessNoData == hist.op.name = "SaveTimeFrame" /\ hist.op.err = "nodata"


\* The connection handler has got past its first message.
Greeted ==
    /\ reader.op = "HandleWebsocketSubscribe"
    /\ reader.pc \in {"called", "greet"}
    /\ reader'.pc \in {"writing", "done"}

\* C34: on every upgrade, when a current base candle exists, a message carrying
\* a copy of it is sent to the new subscriber right after its registration,
\* whatever timeframe the connection asked for.
C34_GreetedWithCurrent ==
    [][(Greeted /\ currentCandle # <<>>) =>
          /\ Len(reader'.got) = 1
          /\ reader'.got[1].Candle = currentCandle[1]]_vars

\* The same for the connections that ask for the base timeframe.
GreetedWithCurrentOnBase ==
    [][(Greeted /\ currentCandle # <<>> /\ reader.tf = TimeFrame1Min) =>
          /\ Len(reader'.got) = 1
          /\ reader'.got[1].Candle = currentCandle[1]]_vars

\* A connection asking for the base timeframe has been sent the current candle.
GreetedOnBase ==
    /\ reader.op = "HandleWebsocketSubscribe" /\ reader.pc = "done"
    /\ reader.tf = TimeFrame1Min
    /\ reader.got # <<>>


\* Connection c is registered although reads or writes on it fail.
FailedRegistered(c) == c \in clients /\ conns[c] \in {"broken", "closed"}

\* C35: a subscriber whose read or whose broadcast write has failed is
\* eventually out of the registry with its transport closed, so that no
\* connection with a closed transport stays registered.
C35_FailedRemoved ==
    \A c \in Conns : FailedRegistered(c) ~> (c \notin clients /\ conns[c] = "closed")

\* The same as long as no broadcast runs into a failed write.
FailedRemovedByReader ==
    [](driver.pc # "blocked") =>
        \A c \in Conns : FailedRegistered(c) ~> (c \notin clients /\ conns[c] = "closed")

\* A connection closed by a broadcast is still registered.
ClosedStillRegistered == \E c \in Conns : c \in clients /\ conns[c] = "closed"


\* A history of the base timeframe has been returned to the handler.
BaseHistoryReturned ==
    /\ reader.pc = "done"
    /\ reader.op = "GetHistoryForTimeFrame"
    /\ reader.tf = TimeFrame1Min

\* C36: GetHistoryForTimeFrame for the base timeframe never returns a candle
\* twice, FinalizeCurrentCandle running next to it or not: no two candles of
\* the result have the same timestamp, and only the last one may be open.
C36_NoCandleTwice ==
    BaseHistoryReturned =>
        /\ \A j, k \in 1..Len(reader.got) :
              j # k => reader.got[j].Timestamp # reader.got[k].Timestamp
        /\ \A k \in 1..(Len(reader.got) - 1) : reader.got[k].IsComplete

\* The same for the calls that find the driver outside FinalizeCurrentCandle.
NoCandleTwiceOutsideFinalize ==
    [][(reader.pc = "called" /\ reader'.pc = "done" /\ reader.op = "GetHistoryForTimeFrame"
          /\ reader.tf = TimeFrame1Min /\ driver.pc \in {"idle", "volume"}) =>
          /\ \A j, k \in 1..Len(reader'.got) :
                j # k => reader'.got[j].Timestamp # reader'.got[k].Timestamp
          /\ \A k \in 1..(Len(reader'.got) - 1) : reader'.got[k].IsComplete]_vars


\* A broadcast writes to the connection the handler is writing its first
\* message to.
WritesOverlap ==
    /\ reader.pc = "writing" /\ reader'.pc = "writing"
    /\ bcast' # bcast
    /\ reader.conn \in bcast'.got \cup bcast'.failed

\* C37: no two goroutines write to one connection at a time: the driver's
\* broadcast and the handler's first message to a connection exclude each other.
C37_OneWriter == [][~WritesOverlap]_vars


\* The caller of SaveTimeFrame waits for the read lock.
InSaveTimeFrame == driver.pc = "saving"

\* C38: SaveTimeFrame, which takes timeFrameDataLock in shared mode, is never
\* called by a goroutine that holds the lock exclusively, in the earlier
\* service as in the current one: the wall-clock completion path returns and
\* releases the lock.
C38_NoSaveUnderLock == ~(InSaveTimeFrame /\ HoldsExclusive)

\* In the current service the driver never is inside SaveTimeFrame with the
\* lock held: the saves of updateHigherTimeframes are goroutines, which wait
\* for the lock, and the save of FinalizeCurrentCandle follows the Unlock.
NoSaveUnderLockNow ==
    /\ ~(InSaveTimeFrame /\ HoldsExclusive)
    /\ driver.pc = "finish" => ~HoldsExclusive


\* A candle without its completion flag.
Figures(c) == [Timestamp |-> c.Timestamp, Values |-> c.Values, Volume |-> c.Volume]

\* The store was filled by FinalizeCurrentCandle alone, starting from nothing,
\* nothing has been evicted, and no call is under way.
GrownFromEmpty ==
    /\ driver.pc = "idle"
    /\ Len(timeFrameData[TimeFrame1Min]) < maxCandles
    /\ hist.count[TimeFrame1Min] = Len(timeFrameData[TimeFrame1Min])

\* C39: starting from empty series, after any sequence of finalized base
\* candles short of the capacity, the candles of each derived series built by
\* updateHigherTimeframes have the timestamp, open, high, low, close and volume
\* of those the grouping of initializeHigherTimeframes computes from the base
\* series; the two differ in isComplete at most.
C39_IncrementalIsBatch ==
    GrownFromEmpty =>
        \A tf \in DerivedTimeFrames :
            LET s == timeFrameData[tf]
                base == timeFrameData[TimeFrame1Min]
                g == GroupCandles(tf, base, Len(base))
            IN  /\ Len(s) = Len(g)
                /\ {Figures(s[k]) : k \in 1..Len(s)} = {Figures(g[k]) : k \in 1..Len(g)}

\* Two base candles with different closes folded into one 5m entry.
C39_Witness ==
    /\ GrownFromEmpty
    /\ Len(timeFrameData[TimeFrame1Min]) = 2
    /\ Len(timeFrameData[TimeFrame5Min]) = 1
    /\ timeFrameData[TimeFrame1Min][1].Values[4] # timeFrameData[TimeFrame1Min][2].Values[4]
    /\ timeFrameData[TimeFrame5Min][1].Volume =
          timeFrameData[TimeFrame1Min][1].Volume + timeFrameData[TimeFrame1Min][2].Volume

\* Two base candles in two 5m buckets, the first one closed by the rollover.
C39_WitnessRollover ==
    /\ GrownFromEmpty
    /\ Len(timeFrameData[TimeFrame1Min]) = 2
    /\ Len(timeFrameData[TimeFrame5Min]) = 2
    /\ timeFrameData[TimeFrame5Min][1].IsComplete


\* Sockets of the browser that are connecting or open, and sockets whose close
\* event is still to come.
LiveSockets == {k \in Sockets : frontend.state[k] \in {"connecting", "open"}}

ClosingSockets == {k \in Sockets : frontend.state[k] = "closing"}

\* C40: after disconnectWebSocket on an open connection the browser stays
\* disconnected: once the close events have been handled no reconnect timer is
\* pending and no socket is live, until connectWebSocket is called again; and
\* after a connectWebSocket that replaced an open socket, once the close events
\* have been handled, exactly one socket is live and no reconnect timer is
\* pending.
C40_StaysDisconnected ==
    ClosingSockets = {} =>
        /\ frontend.asked = "disconnect" =>
              frontend.timers = {} /\ LiveSockets = {}
        /\ frontend.asked = "replace" =>
              frontend.timers = {} /\ Cardinality(LiveSockets) = 1

\* The page has disconnected, the close event has been handled, and a
\* reconnect timer is pending.
ReconnectAfterDisconnect ==
    /\ frontend.asked = "disconnect"
    /\ ClosingSockets = {}
    /\ frontend.timers # {}

\* The page has replaced an open socket, the close event of the old one has
\* been handled, and a reconnect timer is pending.
ReconnectAfterReplace ==
    /\ frontend.asked = "replace"
    /\ ClosingSockets = {}
    /\ frontend.timers # {}

\* A socket is created while the page wants none: the reconnect timer of a
\* socket closed by disconnectWebSocket has fired.
ReconnectedAfterDisconnect ==
    /\ frontend.asked = "disconnect"
    /\ LiveSockets # {}

\* What the code does keep: once disconnectWebSocket has run, the socket it
\* found open is no longer open.
DisconnectCloses ==
    [][DisconnectWebSocket => frontend'.state[frontend.ws] # "open"]_vars

====
